---- MODULE Spec2Model ----
(***************************************************************************)
(* A model of the chunked ingestion-and-merge pipeline of the PDF          *)
(* knowledge-graph generator: the graph upsert writer                      *)
(* (app/database_manager.py), the extraction client (app/graph_builder.py),*)
(* the ingestion orchestrator (app/ingestion_pipeline.py), its driver      *)
(* (app/run_assignment.py), the build command (app/cli_commands/build.py)  *)
(* and the ontology utilities it uses (app/utils.py).                      *)
(*                                                                         *)
(* Strings that the code transforms (entity and relationship types, which  *)
(* are sanitized before use as a label) are sequences of one-character     *)
(* strings; strings the code only compares (names, descriptions) are       *)
(* TLA+ strings.                                                           *)
(***************************************************************************)
EXTENDS Integers, Sequences, FiniteSets, TLC

VARIABLES
    graph,      \* the graph store: [nodes: Seq(node), edges: Seq(edge)], in creation order
    prev,       \* the graph before the last update_graph call (history)
    last,       \* the graph_data of the last update_graph call (history)
    result,     \* what the last update_graph call did:
                \* [raised, ret, queries, labels, printed]
    ncalls,     \* number of update_graph calls made so far
    repeat,     \* the last call had the same graph_data as the one before it (history)
    plan,       \* the driver's passes: a sequence of passes, each a sequence of directories
    env,        \* the file system and the completion service: directory -> listing or "missing"
    pc,         \* where the driver is: "call", "listdir", "file", "chunk", "done", "crashed"
    passIdx,    \* index of the current pass in plan
    dirIdx,     \* index of the current directory in the current pass
    fileIdx,    \* index of the current file in the directory listing
    chunkIdx,   \* index of the current chunk of the current file
    log,        \* what was printed / done so far, one event per unit of work (history)
    chunkSize,  \* IngestionPipeline.chunk_size
    chunkOverlap, \* IngestionPipeline.chunk_overlap
    ontoFile,   \* the ontology file on disk: NoFile or its content
    initial_sources, \* build: the loaders of the initial PDFs
    successful_sources, \* build (app/__main__.py): the loaders that passed the trial
    all_sources, \* build: the loaders of the initial and the additional PDFs
    discovered, \* build: the ontology discovered from the initial sources
    raw_json,   \* build: the decoded ontology file, normalised in place
    existing,   \* build: the ontology made from raw_json
    ontology,   \* build: the ontology the knowledge graph is opened with
    kg          \* build: the knowledge graphs constructed, each the ontology it was given

writerVars == <<prev, last, result, ncalls, repeat>>
pipeVars == <<plan, env, pc, passIdx, dirIdx, fileIdx, chunkIdx, log>>
configVars == <<chunkSize, chunkOverlap>>
buildVars == <<ontoFile, initial_sources, successful_sources, all_sources, discovered, raw_json, existing,
               ontology, kg>>
vars == <<graph, prev, last, result, ncalls, repeat,
          plan, env, pc, passIdx, dirIdx, fileIdx, chunkIdx, log,
          chunkSize, chunkOverlap,
          ontoFile, initial_sources, successful_sources, all_sources, discovered, raw_json, existing,
          ontology, kg>>

(***************************************************************************)
(* Python / JSON values, as json.loads returns them.                       *)
(***************************************************************************)
Null == [kind |-> "null"]
Num(n) == [kind |-> "num", v |-> n]
List(s) == [kind |-> "list", v |-> s]
Dict(f) == [kind |-> "dict", v |-> f]
EmptyDict == [kind |-> "dict", v |-> [k \in {} |-> Null]]

\* Python truthiness: `if graph_data`, `not graph_data`.
Truthy(j) ==
    CASE j.kind = "null" -> FALSE
      [] j.kind = "num" -> j.v # 0
      [] j.kind = "list" -> Len(j.v) > 0
      [] j.kind = "dict" -> DOMAIN j.v # {}

\* Python `key in j`: a key test on a dict, a membership test on a list,
\* a TypeError on a number (argument of type 'int' is not iterable).
In(key, j) ==
    CASE j.kind = "dict" -> IF key \in DOMAIN j.v THEN "yes" ELSE "no"
      [] j.kind = "list" -> IF \E i \in 1..Len(j.v) : j.v[i] = key THEN "yes" ELSE "no"
      [] OTHER -> "TypeError"

(***************************************************************************)
(* The graph store (FalkorDB), as far as the two queries of update_graph   *)
(* use it.                                                                 *)
(***************************************************************************)
EmptyGraph == [nodes |-> <<>>, edges |-> <<>>]

\* str.replace(" ", "_") on a type string.
Sanitize(s) == [i \in 1..Len(s) |-> IF s[i] = " " THEN "_" ELSE s[i]]

\* dict.get('description', '').
DescriptionOf(entity) ==
    IF "description" \in DOMAIN entity THEN entity.description ELSE ""

\* MERGE (n:<label> {name: $name}) ON CREATE SET n.description = $description
MergeNodeAlways(g, label, name, description) ==
    [g EXCEPT !.nodes = Append(@, [label |-> label, name |-> name,
                                   description |-> description])]

MergeNodeOverwrite(g, label, name, description) ==
    IF \E i \in 1..Len(g.nodes) : g.nodes[i].label = label /\ g.nodes[i].name = name
    THEN [g EXCEPT !.nodes = [i \in 1..Len(g.nodes) |->
            IF g.nodes[i].label = label /\ g.nodes[i].name = name
            THEN [g.nodes[i] EXCEPT !.description = description]
            ELSE g.nodes[i]]]
    ELSE [g EXCEPT !.nodes = Append(@, [label |-> label, name |-> name,
                                        description |-> description])]

MergeNodeByName(g, label, name, description) ==
    IF \E i \in 1..Len(g.nodes) : g.nodes[i].name = name
    THEN g
    ELSE [g EXCEPT !.nodes = Append(@, [label |-> label, name |-> name,
                                        description |-> description])]

MergeNode(g, label, name, description) ==
    IF \E i \in 1..Len(g.nodes) : g.nodes[i].label = label /\ g.nodes[i].name = name
    THEN g
    ELSE [g EXCEPT !.nodes = Append(@, [label |-> label, name |-> name,
                                        description |-> description])]

\* MATCH (a {name: $source}) MATCH (b {name: $target}): every pair of nodes
\* with these names, whatever their labels, in node-id order.
MatchRows(g, source, target) ==
    LET n == Len(g.nodes)
        all == [k \in 1..(n * n) |-> <<((k - 1) \div n) + 1, ((k - 1) % n) + 1>>]
    IN  IF n = 0 THEN <<>>
        ELSE SelectSeq(all, LAMBDA r : g.nodes[r[1]].name = source
                                       /\ g.nodes[r[2]].name = target)

\* MERGE (a)-[r:<type>]->(b) for one matched pair.
MergeEdgeAlways(g, a, b, type) ==
    [g EXCEPT !.edges = Append(@, [src |-> a, dst |-> b, type |-> type])]

MergeEdgeReplace(g, a, b, type) ==
    [g EXCEPT !.edges = Append(SelectSeq(@, LAMBDA e : ~(e.src = a /\ e.dst = b)),
                               [src |-> a, dst |-> b, type |-> type])]

MergeEdge(g, a, b, type) ==
    IF \E k \in 1..Len(g.edges) : g.edges[k] = [src |-> a, dst |-> b, type |-> type]
    THEN g
    ELSE [g EXCEPT !.edges = Append(@, [src |-> a, dst |-> b, type |-> type])]

RECURSIVE MergeRows(_, _, _)
MergeRows(g, rows, type) ==
    IF rows = <<>> THEN g
    ELSE MergeRows(MergeEdge(g, Head(rows)[1], Head(rows)[2], type), Tail(rows), type)

RECURSIVE CreateRows(_, _, _)
CreateRows(g, rows, type) ==
    IF rows = <<>> THEN g
    ELSE CreateRows(MergeEdgeAlways(g, Head(rows)[1], Head(rows)[2], type),
                    Tail(rows), type)

MergeRelationshipCreate(g, type, source, target) ==
    CreateRows(g, MatchRows(g, source, target), type)

\* The relationship query: no matched pair, no row, so no change and no error.
MergeRelationshipWholePattern(g, type, source, target) ==
    IF MatchRows(g, source, target) = <<>>
    THEN MergeRows(
            MergeNode(MergeNode(g, <<"N">>, source, ""), <<"N">>, target, ""),
            MatchRows(MergeNode(MergeNode(g, <<"N">>, source, ""), <<"N">>, target, ""),
                      source, target),
            type)
    ELSE MergeRows(g, MatchRows(g, source, target), type)

MergeRelationship(g, type, source, target) ==
    MergeRows(g, MatchRows(g, source, target), type)

(***************************************************************************)
(* DatabaseManager.update_graph.  A run of queries is                      *)
(* [graph, raised, queries, labels]: the graph so far, whether an          *)
(* exception has been raised, the number of queries sent to the store and  *)
(* the labels interpolated into them, in order.                            *)
(***************************************************************************)
\* The characters of a label the store's query language takes unquoted: a
\* letter or an underscore, then letters, digits and underscores.
Letters ==
    {"A", "B", "C", "D", "E", "F", "G", "H", "I", "J", "K", "L", "M", "N", "O", "P",
     "Q", "R", "S", "T", "U", "V", "W", "X", "Y", "Z", "a", "b", "c", "d", "e", "f",
     "g", "h", "i", "j", "k", "l", "m", "n", "o", "p", "q", "r", "s", "t", "u", "v",
     "w", "x", "y", "z"}
Digits == {"0", "1", "2", "3", "4", "5", "6", "7", "8", "9"}

LegalLabel(label) ==
    /\ label # <<>>
    /\ label[1] \in Letters \cup {"_"}
    /\ \A i \in 1..Len(label) : label[i] \in Letters \cup Digits \cup {"_"}

\* db_instance.query with the label interpolated into the query text: the
\* store raises on a text that is not a query.
SendQuery(run, label, g) ==
    IF LegalLabel(label)
    THEN [graph |-> g, raised |-> FALSE, queries |-> run.queries + 1,
          labels |-> Append(run.labels, label)]
    ELSE [graph |-> run.graph, raised |-> TRUE, queries |-> run.queries + 1,
          labels |-> Append(run.labels, label)]

\* `for x in j`: the items of a list; an empty dict has none.
ItemsOf(j) == IF j.kind = "list" THEN j.v ELSE <<>>

\* `for x in j` followed by x['type'] raises a TypeError when j is None or a
\* number (not iterable) or a non-empty dict (its keys are strings).
ForRaises(j) ==
    \/ j.kind \in {"null", "num"}
    \/ j.kind = "dict" /\ DOMAIN j.v # {}

\* The entity loop; entity['type'] is evaluated before entity['name'], both
\* before the query is sent, and a missing key raises KeyError.
RECURSIVE UpsertEntities(_, _)
UpsertEntities(run, entities) ==
    IF entities = <<>> \/ run.raised THEN run
    ELSE LET entity == Head(entities) IN
         IF "type" \notin DOMAIN entity \/ "name" \notin DOMAIN entity
         THEN [run EXCEPT !.raised = TRUE]
         ELSE UpsertEntities(
                SendQuery(run, Sanitize(entity.type),
                          MergeNode(run.graph, Sanitize(entity.type), entity.name,
                                    DescriptionOf(entity))),
                Tail(entities))

\* The relationship loop; rel['type'], rel['source'], rel['target'] are
\* evaluated before the query is sent.
RECURSIVE UpsertRelationships(_, _)
UpsertRelationships(run, relationships) ==
    IF relationships = <<>> \/ run.raised THEN run
    ELSE LET rel == Head(relationships) IN
         IF \/ "type" \notin DOMAIN rel
            \/ "source" \notin DOMAIN rel
            \/ "target" \notin DOMAIN rel
         THEN [run EXCEPT !.raised = TRUE]
         ELSE UpsertRelationships(
                SendQuery(run, Sanitize(rel.type),
                          MergeRelationship(run.graph, Sanitize(rel.type),
                                            rel.source, rel.target)),
                Tail(relationships))

\* The two loops of update_graph, entities first.
UpsertAll(g, entities, relationships) ==
    LET start == [graph |-> g, raised |-> FALSE, queries |-> 0, labels |-> <<>>]
        r1 == IF ForRaises(entities) THEN [start EXCEPT !.raised = TRUE]
              ELSE UpsertEntities(start, ItemsOf(entities))
    IN  IF r1.raised THEN r1
        ELSE IF ForRaises(relationships) THEN [r1 EXCEPT !.raised = TRUE]
        ELSE UpsertRelationships(r1, ItemsOf(relationships))

\* update_graph returning the number of entities only.
UpdateGraphCountsEntities(g, data) ==
    LET quiet == [graph |-> g, raised |-> FALSE, ret |-> 0, queries |-> 0,
                  printed |-> FALSE, labels |-> <<>>]
        boom(gr, q, ls) == [graph |-> gr, raised |-> TRUE, ret |-> -1, queries |-> q,
                            printed |-> FALSE, labels |-> ls]
    IN  IF ~Truthy(data) THEN quiet
        ELSE IF In("entities", data) = "TypeError" THEN boom(g, 0, <<>>)
        ELSE IF In("entities", data) = "no" \/ In("relationships", data) = "no"
        THEN quiet
        ELSE IF data.kind # "dict" THEN boom(g, 0, <<>>)
        ELSE LET run == UpsertAll(g, data.v.entities, data.v.relationships) IN
             IF run.raised THEN boom(run.graph, run.queries, run.labels)
             ELSE [graph |-> run.graph, raised |-> FALSE,
                   ret |-> Len(ItemsOf(data.v.entities)),
                   queries |-> run.queries, printed |-> TRUE, labels |-> run.labels]

\* update_graph(db_instance, graph_data):
\* [graph, raised, ret, queries, printed, labels].  ret is the returned count
\* (-1 when an exception leaves the call), printed says whether the "Graph
\* updated with ..." line was printed.
UpdateGraph(g, data) ==
    LET quiet == [graph |-> g, raised |-> FALSE, ret |-> 0, queries |-> 0,
                  printed |-> FALSE, labels |-> <<>>]
        boom(gr, q, ls) == [graph |-> gr, raised |-> TRUE, ret |-> -1, queries |-> q,
                            printed |-> FALSE, labels |-> ls]
    IN  IF ~Truthy(data) THEN quiet
        ELSE IF In("entities", data) = "TypeError" THEN boom(g, 0, <<>>)
        ELSE IF In("entities", data) = "no" \/ In("relationships", data) = "no"
        THEN quiet
        ELSE IF data.kind # "dict" THEN boom(g, 0, <<>>)
        ELSE LET run == UpsertAll(g, data.v.entities, data.v.relationships) IN
             IF run.raised THEN boom(run.graph, run.queries, run.labels)
             ELSE [graph |-> run.graph, raised |-> FALSE,
                   ret |-> Len(ItemsOf(data.v.entities))
                           + Len(ItemsOf(data.v.relationships)),
                   queries |-> run.queries, printed |-> TRUE, labels |-> run.labels]

(***************************************************************************)
(* The inputs: entity records, relationship records and graph_data values. *)
(***************************************************************************)
MaxCalls == 3

Person == <<"P">>
OrgSpaced == <<"O", " ", "G">>
OrgUnderscored == <<"O", "_", "G">>
RelSpaced == <<"R", " ", "S">>
RelUnderscored == <<"R", "_", "S">>

EntA == [name |-> "X", type |-> Person, description |-> "d1"]
EntB == [name |-> "X", type |-> Person, description |-> "d2"]
EntC == [name |-> "X", type |-> OrgSpaced]
EntD == [name |-> "X", type |-> OrgUnderscored, description |-> "d1"]
EntE == [name |-> "Y", type |-> Person, description |-> "d1"]
EntNoType == [name |-> "Y", description |-> "d2"]
EntNoName == [type |-> Person, description |-> "d1"]

RelXY == [source |-> "X", target |-> "Y", type |-> RelSpaced]
RelXYu == [source |-> "X", target |-> "Y", type |-> RelUnderscored]
RelXZ == [source |-> "X", target |-> "Z", type |-> RelSpaced]
RelXYt == [source |-> "X", target |-> "Y", type |-> <<"T">>]
RelNoTarget == [source |-> "X", type |-> RelSpaced]
RelNoType == [source |-> "X", target |-> "Y"]

EntityLists ==
    { <<>>, <<EntA>>, <<EntB>>, <<EntC>>, <<EntD>>, <<EntE>>,
      <<EntA, EntE>>, <<EntA, EntB>>, <<EntC, EntD>>, <<EntA, EntC>>,
      <<EntA, EntC, EntE>>, <<EntNoType, EntE>>, <<EntA, EntNoName, EntE>> }

RelationshipLists ==
    { <<>>, <<RelXY>>, <<RelXYu>>, <<RelXYt>>, <<RelXY, RelXYu>>, <<RelXZ, RelXY>>,
      <<RelNoTarget, RelXY>>, <<RelXY, RelNoType>> }

\* Replies of the expected structure: an object with an `entities` list and
\* a `relationships` list (whose records may still lack a key).
StructuredPayloads ==
    { Dict([entities |-> List(es), relationships |-> List(rs)]) :
        es \in EntityLists, rs \in RelationshipLists }

\* Valid JSON of another shape.
OddPayloads ==
    { Null, Num(0), Num(5), List(<<>>), List(<<"entities">>),
      List(<<"entities", "relationships">>), EmptyDict,
      Dict([entities |-> List(<<EntA>>)]),
      Dict([relationships |-> List(<<RelXY>>)]),
      Dict([entities |-> List(<<EntA, EntE>>), relationships |-> Null]),
      Dict([entities |-> Num(5), relationships |-> List(<<RelXY>>)]) }

Payloads == StructuredPayloads \cup OddPayloads

\* A record that has every key the writer reads.
WellFormedEntity(e) == {"name", "type"} \subseteq DOMAIN e
WellFormedRelationship(r) == {"source", "target", "type"} \subseteq DOMAIN r

\* A payload {entities, relationships} of well-formed records.
WellFormed(data) ==
    /\ data.kind = "dict"
    /\ DOMAIN data.v = {"entities", "relationships"}
    /\ data.v.entities.kind = "list"
    /\ data.v.relationships.kind = "list"
    /\ \A i \in 1..Len(data.v.entities.v) : WellFormedEntity(data.v.entities.v[i])
    /\ \A i \in 1..Len(data.v.relationships.v) :
          WellFormedRelationship(data.v.relationships.v[i])

(***************************************************************************)
(* The file system and the completion service, as the pipeline sees them.  *)
(***************************************************************************)
\* IngestionPipeline.__init__
chunk_size == 12000
chunk_overlap == 500

\* len(range(0, stop, step)) for step > 0.
RangeLen(stop, step) == IF stop <= 0 THEN 0 ELSE (stop + step - 1) \div step

\* The chunk loop stepping by the chunk size, the overlap left out.
ChunksNoOverlap(len, size, overlap) ==
    [k \in 1..RangeLen(len, size) |->
        [start |-> (k - 1) * size,
         stop |-> IF (k - 1) * size + size < len THEN (k - 1) * size + size ELSE len]]

\* The chunk loop leaving out a last chunk shorter than a step.
ChunksDropTail(len, size, overlap) ==
    [k \in 1..(IF len < size - overlap THEN 1 ELSE len \div (size - overlap)) |->
        [start |-> (k - 1) * (size - overlap),
         stop |-> IF (k - 1) * (size - overlap) + size < len
                  THEN (k - 1) * (size - overlap) + size ELSE len]]

\* The chunk loop: for i in range(0, len(full_text), size - overlap), the
\* slice full_text[i : i + size], as [start, stop) offsets.
Chunks(len, size, overlap) ==
    [k \in 1..RangeLen(len, size - overlap) |->
        [start |-> (k - 1) * (size - overlap),
         stop |-> IF (k - 1) * (size - overlap) + size < len
                  THEN (k - 1) * (size - overlap) + size ELSE len]]

\* What litellm.completion and the reply's content can be for one chunk.
ServiceRaises == [kind |-> "raise"]
NotJson == [kind |-> "notjson"]
Json(value) == [kind |-> "json", value |-> value]

\* What partition_pdf and the join of the element texts give for one file.
Unreadable == [kind |-> "raise"]
Text(len, blank) == [kind |-> "text", len |-> len, blank |-> blank]

\* A directory entry: whether its name ends in ".pdf", what parsing it
\* gives, and the service's reply for each of its chunks.
NonPdf == [pdf |-> FALSE, text |-> Unreadable, replies |-> <<>>]
PdfUnreadable == [pdf |-> TRUE, text |-> Unreadable, replies |-> <<>>]
PdfBlank == [pdf |-> TRUE, text |-> Text(3, TRUE), replies |-> <<>>]
PdfEmpty == [pdf |-> TRUE, text |-> Text(0, TRUE), replies |-> <<>>]
Pdf(len, replies) == [pdf |-> TRUE, text |-> Text(len, FALSE), replies |-> replies]

\* A directory: os.listdir raises when it does not exist.
Missing == [exists |-> FALSE, files |-> <<>>]
Dir(files) == [exists |-> TRUE, files |-> files]
NoEnv == [initial |-> Missing, additional |-> Missing]

\* IngestionPipeline.__init__: the chunk size and overlap of the pipeline.
DefaultConfig ==
    /\ chunkSize = chunk_size
    /\ chunkOverlap = chunk_overlap

\* No ontology file on disk (ONTO_PATH.exists() is false).
NoFile == [exists |-> FALSE]

\* Before build has done anything.
BuildStart ==
    /\ initial_sources = <<>>
    /\ successful_sources = <<>>
    /\ all_sources = <<>>
    /\ discovered = Null
    /\ raw_json = Null
    /\ existing = Null
    /\ ontology = Null
    /\ kg = <<>>

\* The state of a run that is not a build.
NoBuild ==
    /\ ontoFile = NoFile
    /\ BuildStart

(***************************************************************************)
(* The writer on its own: any sequence of update_graph calls on one graph. *)
(***************************************************************************)
NoResult ==
    [raised |-> FALSE, ret |-> 0, queries |-> 0, labels |-> <<>>, printed |-> FALSE]

\* One call of update_graph, with the history the properties read.
CallUpdateGraph(data) ==
    LET r == UpdateGraph(graph, data) IN
    /\ graph' = r.graph
    /\ prev' = graph
    /\ last' = data
    /\ result' = [raised |-> r.raised, ret |-> r.ret, queries |-> r.queries,
                  labels |-> r.labels,
                  printed |-> r.printed]
    /\ ncalls' = ncalls + 1
    /\ repeat' = (ncalls >= 1 /\ data = last)

WriterInit ==
    /\ graph = EmptyGraph
    /\ prev = EmptyGraph
    /\ last = Null
    /\ result = NoResult
    /\ ncalls = 0
    /\ repeat = FALSE

Init ==
    /\ WriterInit
    /\ DefaultConfig
    /\ NoBuild
    /\ plan = <<>>
    /\ env = NoEnv
    /\ pc = "call"
    /\ passIdx = 0
    /\ dirIdx = 0
    /\ fileIdx = 0
    /\ chunkIdx = 0
    /\ log = <<>>

UpdateGraphCall ==
    /\ pc = "call"
    /\ ncalls < MaxCalls
    /\ \E data \in Payloads : CallUpdateGraph(data)
    /\ UNCHANGED <<pipeVars, configVars, buildVars>>

Next == UpdateGraphCall

Spec == Init /\ [][Next]_vars

(***************************************************************************)
(* The writer on types of any characters: one update_graph call whose      *)
(* payload has an entity and a relationship with types made of a letter,   *)
(* a space, a hyphen, a digit and an underscore.                           *)
(***************************************************************************)
MaxTypeLen == 2

TypeChars == {"A", " ", "-", "1", "_"}

TypeStrings == UNION { [1..n -> TypeChars] : n \in 1..MaxTypeLen }

TypedPayload(etype, rtype) ==
    Dict([entities |-> List(<<[name |-> "X", type |-> etype, description |-> "d1"], EntE>>),
          relationships |-> List(<<[source |-> "X", target |-> "Y", type |-> rtype]>>)])

TypedCall ==
    /\ pc = "call"
    /\ ncalls = 0
    /\ \E etype, rtype \in TypeStrings : CallUpdateGraph(TypedPayload(etype, rtype))
    /\ UNCHANGED <<pipeVars, configVars, buildVars>>

SpecLabels == Init /\ [][TypedCall]_vars

(***************************************************************************)
(* GraphBuilder.extract_graph_from_chunk: the completion call and          *)
(* json.loads inside one try/except that prints and returns None.          *)
(* [raised, value, error]: whether an exception leaves the call, the value *)
(* returned (None is Null), whether the ERROR line was printed.            *)
(***************************************************************************)
ExtractGraphFromChunkNoCatch(reply) ==
    IF reply.kind = "json"
    THEN [raised |-> FALSE, value |-> reply.value, error |-> FALSE]
    ELSE [raised |-> TRUE, value |-> Null, error |-> FALSE]

\* The try around the completion call only: json.loads raises past it.
ExtractGraphFromChunkDecodeOutsideTry(reply) ==
    IF reply.kind = "json"
    THEN [raised |-> FALSE, value |-> reply.value, error |-> FALSE]
    ELSE IF reply.kind = "raise"
    THEN [raised |-> FALSE, value |-> Null, error |-> TRUE]
    ELSE [raised |-> TRUE, value |-> Null, error |-> FALSE]

ExtractGraphFromChunk(reply) ==
    IF reply.kind = "json"
    THEN [raised |-> FALSE, value |-> reply.value, error |-> FALSE]
    ELSE [raised |-> FALSE, value |-> Null, error |-> TRUE]

(***************************************************************************)
(* IngestionPipeline.process_directory under its drivers.                  *)
(***************************************************************************)
\* run_assignment.main: the initial directory, then the additional one.
AssignmentPlan == << <<"initial">>, <<"additional">> >>
\* build: the initial sources, then the initial and the additional sources.
BuildPlan == << <<"initial">>, <<"initial", "additional">> >>
\* One call of process_directory.
SinglePlan == << <<"initial">> >>

CurrentDir == plan[passIdx][dirIdx]
Listing == env[CurrentDir].files
CurrentFile == Listing[fileIdx]
NumChunks(file) == Len(Chunks(file.text.len, chunkSize, chunkOverlap))

Event(ev, changed) ==
    [ev |-> ev, pass |-> passIdx, dir |-> CurrentDir, file |-> fileIdx,
     chunk |-> chunkIdx, changed |-> changed]

\* Control moves to file number `file` of the listing, or past the loop:
\* to the next directory of the pass, the next pass, or the end of the run.
GoToFile(file) ==
    IF file <= Len(Listing)
    THEN /\ pc' = "file"
         /\ fileIdx' = file
         /\ UNCHANGED <<passIdx, dirIdx>>
    ELSE IF dirIdx < Len(plan[passIdx])
    THEN /\ pc' = "listdir"
         /\ dirIdx' = dirIdx + 1
         /\ fileIdx' = 0
         /\ UNCHANGED passIdx
    ELSE IF passIdx < Len(plan)
    THEN /\ pc' = "listdir"
         /\ passIdx' = passIdx + 1
         /\ dirIdx' = 1
         /\ fileIdx' = 0
    ELSE /\ pc' = "done"
         /\ fileIdx' = 0
         /\ UNCHANGED <<passIdx, dirIdx>>

\* Control moves to chunk number `chunk` of the current file, or past the
\* chunk loop to the next file.
GoToChunk(chunk) ==
    IF chunk <= NumChunks(CurrentFile)
    THEN /\ pc' = "chunk"
         /\ chunkIdx' = chunk
         /\ UNCHANGED <<passIdx, dirIdx, fileIdx>>
    ELSE /\ chunkIdx' = 0
         /\ GoToFile(fileIdx + 1)

\* os.listdir raises: nothing in process_directory catches it, the driver
\* reports a critical error and the run ends.
ListDirFails ==
    /\ pc = "listdir"
    /\ ~env[CurrentDir].exists
    /\ pc' = "crashed"
    /\ log' = Append(log, Event("listdir_failed", FALSE))
    /\ UNCHANGED <<graph, writerVars, plan, env, configVars, buildVars,
                   passIdx, dirIdx, fileIdx, chunkIdx>>

ListDir ==
    /\ pc = "listdir"
    /\ env[CurrentDir].exists
    /\ GoToFile(1)
    /\ UNCHANGED <<graph, writerVars, plan, env, configVars, buildVars, chunkIdx, log>>

\* A name that does not end in ".pdf".
SkipNonPdf ==
    /\ pc = "file"
    /\ ~CurrentFile.pdf
    /\ GoToFile(fileIdx + 1)
    /\ log' = Append(log, Event("skip_nonpdf", FALSE))
    /\ UNCHANGED <<graph, writerVars, plan, env, configVars, buildVars, chunkIdx>>

\* partition_pdf raises and the exception ends the directory's loop.
PartitionFailsEndsLoop ==
    /\ pc = "file"
    /\ CurrentFile.pdf
    /\ CurrentFile.text.kind = "raise"
    /\ GoToFile(Len(Listing) + 1)
    /\ log' = Append(log, Event("file_error", FALSE))
    /\ UNCHANGED <<graph, writerVars, plan, env, configVars, buildVars, chunkIdx>>

\* partition_pdf raises: caught by the file's except.
PartitionFails ==
    /\ pc = "file"
    /\ CurrentFile.pdf
    /\ CurrentFile.text.kind = "raise"
    /\ GoToFile(fileIdx + 1)
    /\ log' = Append(log, Event("file_error", FALSE))
    /\ UNCHANGED <<graph, writerVars, plan, env, configVars, buildVars, chunkIdx>>

\* `if not full_text.strip(): break`.
BlankTextEndsLoop ==
    /\ pc = "file"
    /\ CurrentFile.pdf
    /\ CurrentFile.text.kind = "text"
    /\ CurrentFile.text.blank
    /\ GoToFile(Len(Listing) + 1)
    /\ log' = Append(log, Event("blank", FALSE))
    /\ UNCHANGED <<graph, writerVars, plan, env, configVars, buildVars, chunkIdx>>

\* `if not full_text.strip(): continue`.
BlankText ==
    /\ pc = "file"
    /\ CurrentFile.pdf
    /\ CurrentFile.text.kind = "text"
    /\ CurrentFile.text.blank
    /\ GoToFile(fileIdx + 1)
    /\ log' = Append(log, Event("blank", FALSE))
    /\ UNCHANGED <<graph, writerVars, plan, env, configVars, buildVars, chunkIdx>>

\* The chunk loop is entered.
SplitText ==
    /\ pc = "file"
    /\ CurrentFile.pdf
    /\ CurrentFile.text.kind = "text"
    /\ ~CurrentFile.text.blank
    /\ GoToChunk(1)
    /\ UNCHANGED <<graph, writerVars, plan, env, configVars, buildVars, log>>

\* `if graph_data:` is false: no update_graph for this chunk.
ChunkNoData ==
    /\ pc = "chunk"
    /\ LET got == ExtractGraphFromChunk(CurrentFile.replies[chunkIdx]) IN
       /\ ~got.raised
       /\ ~Truthy(got.value)
       /\ log' = Append(log, Event(IF got.error THEN "extract_error" ELSE "no_data",
                                   FALSE))
    /\ GoToChunk(chunkIdx + 1)
    /\ UNCHANGED <<graph, writerVars, plan, env, configVars, buildVars>>

\* update_graph is called with the extracted value and returns.
ChunkUpsert ==
    /\ pc = "chunk"
    /\ LET got == ExtractGraphFromChunk(CurrentFile.replies[chunkIdx])
           r == UpdateGraph(graph, got.value)
       IN /\ ~got.raised
          /\ Truthy(got.value)
          /\ ~r.raised
          /\ CallUpdateGraph(got.value)
          /\ log' = Append(log, Event(IF r.printed THEN "updated" ELSE "upsert_quiet",
                                      r.graph # graph))
    /\ GoToChunk(chunkIdx + 1)
    /\ UNCHANGED <<plan, env, configVars, buildVars>>

\* An exception leaves the chunk's body (in this code only update_graph can
\* raise one): caught by the file's except, the rest of the file is not
\* processed.
ChunkRaises ==
    /\ pc = "chunk"
    /\ LET got == ExtractGraphFromChunk(CurrentFile.replies[chunkIdx]) IN
       IF got.raised
       THEN /\ log' = Append(log, Event("extract_raised", FALSE))
            /\ UNCHANGED <<graph, writerVars>>
       ELSE /\ Truthy(got.value)
            /\ UpdateGraph(graph, got.value).raised
            /\ CallUpdateGraph(got.value)
            /\ log' = Append(log, Event("upsert_raised",
                                        UpdateGraph(graph, got.value).graph # graph))
    /\ chunkIdx' = 0
    /\ GoToFile(fileIdx + 1)
    /\ UNCHANGED <<plan, env, configVars, buildVars>>

PipelineStart ==
    /\ WriterInit
    /\ pc = "listdir"
    /\ passIdx = 1
    /\ dirIdx = 1
    /\ fileIdx = 0
    /\ chunkIdx = 0
    /\ log = <<>>

PipelineNext ==
    \/ ListDirFails
    \/ ListDir
    \/ SkipNonPdf
    \/ PartitionFails
    \/ BlankText
    \/ SplitText
    \/ ChunkNoData
    \/ ChunkUpsert
    \/ ChunkRaises

(***************************************************************************)
(* One document: process_directory on a directory with one entry, every    *)
(* kind of reply for each chunk.                                           *)
(***************************************************************************)
GoodPayload == Dict([entities |-> List(<<EntA, EntE>>), relationships |-> List(<<RelXY>>)])
OtherPayload == Dict([entities |-> List(<<EntD>>), relationships |-> List(<<>>)])
SameNamePayload == Dict([entities |-> List(<<EntC>>), relationships |-> List(<<RelXYt>>)])
BadEntityPayload ==
    Dict([entities |-> List(<<EntNoType, EntE>>), relationships |-> List(<<RelXY>>)])
BadRelationshipPayload ==
    Dict([entities |-> List(<<EntA, EntE>>), relationships |-> List(<<RelNoTarget, RelXY>>)])
NullRelationshipsPayload ==
    Dict([entities |-> List(<<EntA, EntE>>), relationships |-> Null])
NoRelationshipsPayload == Dict([entities |-> List(<<EntA>>)])

DocReplies ==
    { ServiceRaises, NotJson, Json(Null), Json(EmptyDict), Json(Num(5)),
      Json(List(<<"entities", "relationships">>)), Json(NoRelationshipsPayload),
      Json(NullRelationshipsPayload), Json(GoodPayload), Json(OtherPayload),
      Json(BadEntityPayload), Json(BadRelationshipPayload) }

\* Text lengths giving one, two and three chunks.
DocLengths == {5, 12050, 23001}

DocFiles ==
    {NonPdf, PdfUnreadable, PdfBlank, PdfEmpty}
    \cup UNION { { Pdf(len, replies) :
                     replies \in [1..Len(Chunks(len, chunk_size, chunk_overlap))
                                    -> DocReplies] } : len \in DocLengths }

DocInit ==
    /\ PipelineStart
    /\ DefaultConfig
    /\ NoBuild
    /\ plan = SinglePlan
    /\ \E d \in {Missing} \cup {Dir(<<f>>) : f \in DocFiles} :
          env = [initial |-> d, additional |-> Missing]

SpecDoc == DocInit /\ [][PipelineNext]_vars

(***************************************************************************)
(* A whole run: both drivers, two directories of one-chunk documents.      *)
(***************************************************************************)
MaxFiles == 3

RunReplies ==
    { ServiceRaises, Json(GoodPayload), Json(SameNamePayload), Json(BadEntityPayload) }

RunFiles ==
    {NonPdf, PdfUnreadable, PdfBlank, PdfEmpty} \cup { Pdf(5, <<r>>) : r \in RunReplies }

RunListings(n) == UNION { [1..k -> RunFiles] : k \in 0..n }

\* The directories of a run hold at most MaxFiles entries between them.
RunInit ==
    /\ PipelineStart
    /\ DefaultConfig
    /\ NoBuild
    /\ plan \in {AssignmentPlan, BuildPlan}
    /\ \E i \in {Missing} \cup {Dir(fs) : fs \in RunListings(MaxFiles)} :
       \E a \in {Missing} \cup {Dir(fs) : fs \in RunListings(MaxFiles - Len(i.files))} :
          env = [initial |-> i, additional |-> a]

SpecPipeline == RunInit /\ [][PipelineNext]_vars

(***************************************************************************)
(* The chunk loop under any configuration: process_directory on one        *)
(* document, for small chunk sizes, overlaps and texts and for the chunk   *)
(* size and overlap the pipeline is constructed with.                      *)
(***************************************************************************)
MaxChunkSize == 4
MaxTextLen == 9

\* Valid configurations: chunk_size > 0, 0 <= chunk_overlap < chunk_size.
ChunkerConfigs ==
    { [size |-> s, overlap |-> o, lengths |-> 1..MaxTextLen] :
        s \in 1..MaxChunkSize, o \in 0..(MaxChunkSize - 1) }
    \cup { [size |-> chunk_size, overlap |-> chunk_overlap,
            lengths |-> {5, 11500, 11600, 12050, 23001}] }

\* The service gives every chunk of the document the same kind of reply.
ChunkerReplies == { ServiceRaises, Json(GoodPayload), Json(NullRelationshipsPayload) }

ChunkerFiles(c) ==
    {NonPdf, PdfUnreadable, PdfBlank, PdfEmpty}
    \cup { Pdf(len, [k \in 1..Len(Chunks(len, c.size, c.overlap)) |-> r]) :
             len \in c.lengths, r \in ChunkerReplies }

ChunkerInit ==
    /\ PipelineStart
    /\ NoBuild
    /\ plan = SinglePlan
    /\ \E c \in {x \in ChunkerConfigs : x.overlap < x.size} :
          /\ chunkSize = c.size
          /\ chunkOverlap = c.overlap
          /\ \E d \in {Missing} \cup {Dir(<<f>>) : f \in ChunkerFiles(c)} :
                env = [initial |-> d, additional |-> Missing]

SpecChunker == ChunkerInit /\ [][PipelineNext]_vars

(***************************************************************************)
(* The ontology utilities (app/utils.py).  A raw schema is the decoded     *)
(* ontology file: a dict that may have `entities` and `relations`, each a  *)
(* list of dicts that may have `attributes`, a list of attribute dicts.    *)
(* An Ontology is [entities, relations], two lists of records with a       *)
(* label.  Dicts are functions on their keys; a dict that keeps insertion  *)
(* order (the label maps of merge_ontologies) is the list of its values.   *)
(***************************************************************************)
\* d[key] = value
SetItem(d, key, value) ==
    [k \in DOMAIN d \cup {key} |-> IF k = key THEN value ELSE d[k]]

\* dict.setdefault(key, value), overwriting a present key.
SetDefaultOverwrites(d, key, value) == SetItem(d, key, value)

\* dict.setdefault(key, value): sets the key only when it is absent.
SetDefault(d, key, value) ==
    IF key \in DOMAIN d THEN d ELSE SetItem(d, key, value)

\* The three setdefault calls on one attribute dict.
NormaliseAttribute(attr) ==
    SetDefault(SetDefault(SetDefault(attr, "type", "string"), "unique", FALSE),
               "required", FALSE)

\* The attributes normalised and a default attribute added to them.
NormaliseEntityAppends(ent) ==
    IF "attributes" \in DOMAIN ent
    THEN [k \in DOMAIN ent |->
            IF k = "attributes"
            THEN Append([j \in 1..Len(ent.attributes) |->
                            NormaliseAttribute(ent.attributes[j])],
                        NormaliseAttribute([name |-> "id"]))
            ELSE ent[k]]
    ELSE ent

\* for attr in ent.get("attributes", []): ...
NormaliseEntity(ent) ==
    IF "attributes" \in DOMAIN ent
    THEN [k \in DOMAIN ent |->
            IF k = "attributes"
            THEN [j \in 1..Len(ent.attributes) |-> NormaliseAttribute(ent.attributes[j])]
            ELSE ent[k]]
    ELSE ent

\* for ent in raw.get("entities", []): ...; return raw
normalise_schema(raw) ==
    IF "entities" \in DOMAIN raw
    THEN [k \in DOMAIN raw |->
            IF k = "entities"
            THEN [i \in 1..Len(raw.entities) |-> NormaliseEntity(raw.entities[i])]
            ELSE raw[k]]
    ELSE raw

\* The position of label in the label map m, 0 when it is not a key.
LabelIndex(m, label) ==
    IF \E i \in 1..Len(m) : m[i].label = label
    THEN CHOOSE i \in 1..Len(m) : m[i].label = label
    ELSE 0

\* m[item.label] = item: a present key keeps its place and takes the item.
MapSet(m, item) ==
    IF LabelIndex(m, item.label) = 0
    THEN Append(m, item)
    ELSE [m EXCEPT ![LabelIndex(m, item.label)] = item]

\* m.setdefault(item.label, item), the item always added.
MapSetDefaultAppends(m, item) == Append(m, item)

\* m.setdefault(item.label, item), the item replacing the one of its label.
MapSetDefaultOverwrites(m, item) == MapSet(m, item)

\* m.setdefault(item.label, item)
MapSetDefault(m, item) ==
    IF LabelIndex(m, item.label) = 0 THEN Append(m, item) ELSE m

\* _by_label: {item.label: item for item in seq}
RECURSIVE ByLabel(_)
ByLabel(seq) ==
    IF seq = <<>> THEN <<>>
    ELSE MapSet(ByLabel(SubSeq(seq, 1, Len(seq) - 1)), seq[Len(seq)])

\* for item in seq: m.setdefault(item.label, item)
RECURSIVE SetDefaults(_, _)
SetDefaults(m, seq) ==
    IF seq = <<>> THEN m
    ELSE SetDefaults(MapSetDefault(m, Head(seq)), Tail(seq))

merge_ontologies(a, b) ==
    [entities |-> SetDefaults(ByLabel(a.entities), b.entities),
     relations |-> SetDefaults(ByLabel(a.relations), b.relations)]

(***************************************************************************)
(* The schemas and ontologies of the build.                                *)
(***************************************************************************)
\* d.get(key, default)
Get(d, key, default) == IF key \in DOMAIN d THEN d[key] ELSE default

\* An attribute dict with every key, none at its default.
AttrFull == [name |-> "n", type |-> "number", unique |-> TRUE, required |-> TRUE]
\* The same with its defaults.
AttrDefault == [name |-> "n", type |-> "string", unique |-> FALSE, required |-> FALSE]

Restrict(f, keys) == [k \in keys |-> f[k]]

\* Attribute dicts with any of type, unique and required absent.
AttrDicts ==
    { Restrict(AttrFull, keys \cup {"name"}) : keys \in SUBSET {"type", "unique", "required"} }
    \cup { AttrDefault, [name |-> "n", unique |-> FALSE, note |-> "x"] }

\* Entity records of an ontology file.
RawEntities ==
    { [label |-> "A"], [label |-> "B", attributes |-> <<>>] }
    \cup { [label |-> "A", attributes |-> <<x>>] : x \in AttrDicts }
    \cup { [label |-> "B", attributes |-> <<[name |-> "n"], AttrFull>>, note |-> "x"] }

\* Relation records of an ontology file.
RawRelation(label, attributes) ==
    [label |-> label, source |-> [label |-> "A"], target |-> [label |-> "B"],
     attributes |-> attributes]

\* Contents of the ontology file.
RawSchemas ==
    { [relations |-> <<>>], [entities |-> <<>>, relations |-> <<>>] }
    \cup { [entities |-> <<e>>, relations |-> <<>>] : e \in RawEntities }
    \cup { [entities |-> <<e, [label |-> "A", attributes |-> <<AttrFull>>]>>,
            relations |-> <<RawRelation("R", <<[name |-> "n"]>>)>>, version |-> 1]
             : e \in RawEntities }

\* Ontology.from_json on a schema it accepts: the entities and relations
\* of the schema as Entity and Relation objects.
FromJson(raw) ==
    [entities |->
        [i \in 1..Len(Get(raw, "entities", <<>>)) |->
            [label |-> raw.entities[i].label,
             attributes |-> Get(raw.entities[i], "attributes", <<>>)]],
     relations |->
        [i \in 1..Len(Get(raw, "relations", <<>>)) |->
            [label |-> raw.relations[i].label,
             source |-> raw.relations[i].source.label,
             target |-> raw.relations[i].target.label,
             attributes |-> Get(raw.relations[i], "attributes", <<>>)]]]

\* Ontology.to_json
ToJson(o) ==
    [entities |->
        [i \in 1..Len(o.entities) |->
            [label |-> o.entities[i].label, attributes |-> o.entities[i].attributes]],
     relations |->
        [i \in 1..Len(o.relations) |->
            RawRelation(o.relations[i].label, o.relations[i].attributes)]]

\* What Ontology.from_sources can discover.
Entity(label, attributes) == [label |-> label, attributes |-> attributes]
Relation(label, attributes) ==
    [label |-> label, source |-> "A", target |-> "B", attributes |-> attributes]

DiscoveredOntologies ==
    { [entities |-> es, relations |-> rs] :
        es \in { <<>>, <<Entity("A", <<AttrDefault>>)>>,
                 <<Entity("C", <<>>), Entity("A", <<AttrDefault>>)>>,
                 <<Entity("B", <<AttrFull>>), Entity("A", <<>>)>> },
        rs \in { <<>>, <<Relation("R", <<AttrFull>>)>>,
                 <<Relation("S", <<>>), Relation("R", <<>>)>> } }

(***************************************************************************)
(* The build command (app/cli_commands/build.py): one try around the       *)
(* whole command.  The model, the ontology discovery, the knowledge graph  *)
(* and its ingestion belong to the SDK: each call returns or raises.       *)
(***************************************************************************)
\* The loaders of the entries of a directory whose name ends in ".pdf",
\* in listing order, each named by its directory and place.
RECURSIVE PdfSources(_, _, _)
PdfSources(dir, files, f) ==
    IF f > Len(files) THEN <<>>
    ELSE IF files[f].pdf THEN <<[dir |-> dir, file |-> f]>> \o PdfSources(dir, files, f + 1)
    ELSE PdfSources(dir, files, f + 1)

Sources(dir) == PdfSources(dir, env[dir].files, 1)

Step(ev) == [ev |-> ev]

\* What the build command does not touch.
buildFrame ==
    <<graph, writerVars, plan, env, passIdx, dirIdx, fileIdx, chunkIdx, configVars>>

BuildListInitial ==
    /\ pc = "b_list"
    /\ env["initial"].exists
    /\ Sources("initial") # <<>>
    /\ initial_sources' = Sources("initial")
    /\ pc' = "b_model"
    /\ log' = Append(log, Step("list_initial"))
    /\ UNCHANGED <<buildFrame, ontoFile, successful_sources, all_sources, discovered, raw_json, existing,
                   ontology, kg>>

\* `if not initial_sources`: the command reports it and exits.
BuildNoPdfs ==
    /\ pc = "b_list"
    /\ env["initial"].exists
    /\ Sources("initial") = <<>>
    /\ pc' = "b_failed"
    /\ log' = Append(log, Step("abort"))
    /\ UNCHANGED <<buildFrame, buildVars>>

\* An exception in the try: a directory that cannot be listed, an ontology
\* file that cannot be read, decoded or loaded, or a call of the SDK or a
\* write that raises.  The command reports it and ends.
BuildRaises ==
    /\ pc \in {"b_list", "b_model", "b_discover", "b_load", "b_write", "b_open",
               "b_ingest", "b_list2", "b_evolve"}
    /\ pc = "b_list" => ~env["initial"].exists
    /\ pc = "b_list2" => ~env["additional"].exists
    /\ pc = "b_load" => ontoFile.exists
    /\ pc' = "b_failed"
    /\ log' = Append(log, [ev |-> "error", at |-> pc])
    /\ UNCHANGED <<buildFrame, buildVars>>

BuildModel ==
    /\ pc = "b_model"
    /\ pc' = "b_discover"
    /\ log' = Append(log, Step("model"))
    /\ UNCHANGED <<buildFrame, buildVars>>

\* The discovered ontology written to the file as soon as it is discovered.
BuildDiscoverWritesFile ==
    /\ pc = "b_discover"
    /\ \E o \in DiscoveredOntologies :
          /\ discovered' = o
          /\ ontoFile' = [exists |-> TRUE, content |-> ToJson(o)]
    /\ pc' = "b_load"
    /\ log' = Append(log, Step("discover"))
    /\ UNCHANGED <<buildFrame, initial_sources, successful_sources, all_sources, raw_json,
                   existing, ontology, kg>>

BuildDiscover ==
    /\ pc = "b_discover"
    /\ \E o \in DiscoveredOntologies : discovered' = o
    /\ pc' = "b_load"
    /\ log' = Append(log, Step("discover"))
    /\ UNCHANGED <<buildFrame, ontoFile, initial_sources, successful_sources, all_sources, raw_json,
                   existing, ontology, kg>>

BuildMergeExisting ==
    /\ pc = "b_load"
    /\ ontoFile.exists
    /\ raw_json' = normalise_schema(ontoFile.content)
    /\ existing' = FromJson(raw_json')
    /\ ontology' = merge_ontologies(existing', discovered)
    /\ pc' = "b_write"
    /\ log' = Append(log, Step("merge"))
    /\ UNCHANGED <<buildFrame, ontoFile, initial_sources, successful_sources, all_sources, discovered, kg>>

BuildUseDiscovered ==
    /\ pc = "b_load"
    /\ ~ontoFile.exists
    /\ ontology' = discovered
    /\ pc' = "b_write"
    /\ log' = Append(log, Step("use_discovered"))
    /\ UNCHANGED <<buildFrame, ontoFile, initial_sources, successful_sources, all_sources, discovered,
                   raw_json, existing, kg>>

BuildWrite ==
    /\ pc = "b_write"
    /\ ontoFile' = [exists |-> TRUE, content |-> ToJson(ontology)]
    /\ pc' = "b_open"
    /\ log' = Append(log, Step("write"))
    /\ UNCHANGED <<buildFrame, initial_sources, successful_sources, all_sources, discovered, raw_json,
                   existing, ontology, kg>>

BuildOpenKg ==
    /\ pc = "b_open"
    /\ kg' = Append(kg, ontology)
    /\ pc' = "b_ingest"
    /\ log' = Append(log, Step("open_kg"))
    /\ UNCHANGED <<buildFrame, ontoFile, initial_sources, successful_sources, all_sources, discovered,
                   raw_json, existing,
                   ontology>>

BuildIngestInitial ==
    /\ pc = "b_ingest"
    /\ pc' = "b_list2"
    /\ log' = Append(log, [ev |-> "ingest", sources |-> initial_sources])
    /\ UNCHANGED <<buildFrame, buildVars>>

BuildListAdditional ==
    /\ pc = "b_list2"
    /\ env["additional"].exists
    /\ all_sources' = initial_sources \o Sources("additional")
    /\ pc' = "b_evolve"
    /\ log' = Append(log, Step("list_additional"))
    /\ UNCHANGED <<buildFrame, ontoFile, initial_sources, successful_sources, discovered,
                   raw_json, existing, ontology, kg>>

\* The second ingestion given the additional sources only.
BuildIngestAdditionalOnly ==
    /\ pc = "b_evolve"
    /\ pc' = "b_done"
    /\ log' = Append(log, [ev |-> "ingest", sources |-> Sources("additional")])
    /\ UNCHANGED <<buildFrame, buildVars>>

BuildIngestAll ==
    /\ pc = "b_evolve"
    /\ pc' = "b_done"
    /\ log' = Append(log, [ev |-> "ingest", sources |-> all_sources])
    /\ UNCHANGED <<buildFrame, buildVars>>

BuildNext ==
    \/ BuildListInitial
    \/ BuildNoPdfs
    \/ BuildRaises
    \/ BuildModel
    \/ BuildDiscover
    \/ BuildMergeExisting
    \/ BuildUseDiscovered
    \/ BuildWrite
    \/ BuildOpenKg
    \/ BuildIngestInitial
    \/ BuildListAdditional
    \/ BuildIngestAll


\* The directories of a build.
BuildListings ==
    { <<>>, <<NonPdf>>, <<Pdf(5, <<Json(GoodPayload)>>)>>,
      <<NonPdf, Pdf(5, <<Json(GoodPayload)>>)>>,
      <<Pdf(5, <<Json(GoodPayload)>>), Pdf(5, <<Json(SameNamePayload)>>)>> }

BuildInit ==
    /\ WriterInit
    /\ DefaultConfig
    /\ BuildStart
    /\ plan = <<>>
    /\ passIdx = 0
    /\ dirIdx = 0
    /\ fileIdx = 0
    /\ chunkIdx = 0
    /\ log = <<>>
    /\ pc = "b_list"
    /\ \E i, a \in {Missing} \cup {Dir(fs) : fs \in BuildListings} :
          env = [initial |-> i, additional |-> a]
    /\ ontoFile \in {NoFile} \cup { [exists |-> TRUE, content |-> c] : c \in RawSchemas }

SpecBuild == BuildInit /\ [][BuildNext]_vars

(***************************************************************************)
(* The build command of app/__main__.py: as the one above, but no check    *)
(* for an empty listing; ontology discovery is first tried on each initial *)
(* PDF on its own (a failure is printed and the file left out), the        *)
(* command is aborted when no file passed, and the files that passed are   *)
(* the ones ingested.                                                      *)
(***************************************************************************)
MainListInitial ==
    /\ pc = "m_list"
    /\ env["initial"].exists
    /\ initial_sources' = Sources("initial")
    /\ pc' = "m_model"
    /\ log' = Append(log, Step("list_initial"))
    /\ UNCHANGED <<buildFrame, ontoFile, successful_sources, all_sources, discovered,
                   raw_json, existing, ontology, kg>>

\* An exception outside the per-file try: the command reports it and ends.
MainRaises ==
    /\ pc \in {"m_list", "m_model", "m_discover", "m_load", "m_write", "m_open",
               "m_ingest", "m_list2", "m_evolve"}
    /\ pc = "m_list" => ~env["initial"].exists
    /\ pc = "m_list2" => ~env["additional"].exists
    /\ pc = "m_load" => ontoFile.exists
    /\ pc' = "b_failed"
    /\ log' = Append(log, [ev |-> "error", at |-> pc])
    /\ UNCHANGED <<buildFrame, buildVars>>

MainModel ==
    /\ pc = "m_model"
    /\ pc' = "m_try"
    /\ log' = Append(log, Step("model"))
    /\ UNCHANGED <<buildFrame, buildVars>>

\* The trial loop: the files whose discovery did not raise, in order.
MainTryEach ==
    /\ pc = "m_try"
    /\ \E passed \in SUBSET {initial_sources[i] : i \in 1..Len(initial_sources)} :
          /\ passed # {}
          /\ successful_sources' = SelectSeq(initial_sources, LAMBDA s : s \in passed)
    /\ pc' = "m_discover"
    /\ log' = Append(log, Step("try_each"))
    /\ UNCHANGED <<buildFrame, ontoFile, initial_sources, all_sources, discovered,
                   raw_json, existing, ontology, kg>>

\* `if not successful_sources`: no initial PDF, or every trial raised.
MainNonePassed ==
    /\ pc = "m_try"
    /\ pc' = "b_failed"
    /\ log' = Append(log, Step("abort"))
    /\ UNCHANGED <<buildFrame, buildVars>>

MainDiscover ==
    /\ pc = "m_discover"
    /\ \E o \in DiscoveredOntologies : discovered' = o
    /\ pc' = "m_load"
    /\ log' = Append(log, Step("discover"))
    /\ UNCHANGED <<buildFrame, ontoFile, initial_sources, successful_sources, all_sources,
                   raw_json, existing, ontology, kg>>

MainMergeExisting ==
    /\ pc = "m_load"
    /\ ontoFile.exists
    /\ raw_json' = normalise_schema(ontoFile.content)
    /\ existing' = FromJson(raw_json')
    /\ ontology' = merge_ontologies(existing', discovered)
    /\ pc' = "m_write"
    /\ log' = Append(log, Step("merge"))
    /\ UNCHANGED <<buildFrame, ontoFile, initial_sources, successful_sources, all_sources,
                   discovered, kg>>

MainUseDiscovered ==
    /\ pc = "m_load"
    /\ ~ontoFile.exists
    /\ ontology' = discovered
    /\ pc' = "m_write"
    /\ log' = Append(log, Step("use_discovered"))
    /\ UNCHANGED <<buildFrame, ontoFile, initial_sources, successful_sources, all_sources,
                   discovered, raw_json, existing, kg>>

MainWrite ==
    /\ pc = "m_write"
    /\ ontoFile' = [exists |-> TRUE, content |-> ToJson(ontology)]
    /\ pc' = "m_open"
    /\ log' = Append(log, Step("write"))
    /\ UNCHANGED <<buildFrame, initial_sources, successful_sources, all_sources,
                   discovered, raw_json, existing, ontology, kg>>

MainOpenKg ==
    /\ pc = "m_open"
    /\ kg' = Append(kg, ontology)
    /\ pc' = "m_ingest"
    /\ log' = Append(log, Step("open_kg"))
    /\ UNCHANGED <<buildFrame, ontoFile, initial_sources, successful_sources, all_sources,
                   discovered, raw_json, existing, ontology>>

MainIngestInitial ==
    /\ pc = "m_ingest"
    /\ pc' = "m_list2"
    /\ log' = Append(log, [ev |-> "ingest", sources |-> successful_sources])
    /\ UNCHANGED <<buildFrame, buildVars>>

MainListAdditional ==
    /\ pc = "m_list2"
    /\ env["additional"].exists
    /\ all_sources' = successful_sources \o Sources("additional")
    /\ pc' = "m_evolve"
    /\ log' = Append(log, Step("list_additional"))
    /\ UNCHANGED <<buildFrame, ontoFile, initial_sources, successful_sources, discovered,
                   raw_json, existing, ontology, kg>>

MainIngestAll ==
    /\ pc = "m_evolve"
    /\ pc' = "b_done"
    /\ log' = Append(log, [ev |-> "ingest", sources |-> all_sources])
    /\ UNCHANGED <<buildFrame, buildVars>>

MainNext ==
    \/ MainListInitial
    \/ MainRaises
    \/ MainModel
    \/ MainTryEach
    \/ MainNonePassed
    \/ MainDiscover
    \/ MainMergeExisting
    \/ MainUseDiscovered
    \/ MainWrite
    \/ MainOpenKg
    \/ MainIngestInitial
    \/ MainListAdditional
    \/ MainIngestAll

MainInit ==
    /\ WriterInit
    /\ DefaultConfig
    /\ BuildStart
    /\ plan = <<>>
    /\ passIdx = 0
    /\ dirIdx = 0
    /\ fileIdx = 0
    /\ chunkIdx = 0
    /\ log = <<>>
    /\ pc = "m_list"
    /\ \E i, a \in {Missing} \cup {Dir(fs) : fs \in BuildListings} :
          env = [initial |-> i, additional |-> a]
    /\ ontoFile \in {NoFile} \cup { [exists |-> TRUE, content |-> c] : c \in RawSchemas }

\* Either build command.
BuildsNext ==
    \/ BuildNext
    \/ MainNext

BuildsInit ==
    \/ BuildInit
    \/ MainInit

SpecBuilds == BuildsInit /\ [][BuildsNext]_vars

(***************************************************************************)
(* merge_ontologies on its own: successive ontologies folded into one,     *)
(* each call merge_ontologies(ontology, b) with the result taken as the    *)
(* next first argument.  `existing` and `discovered` are the two argument  *)
(* objects as the call leaves them.                                        *)
(***************************************************************************)
MaxMerges == 2

\* Ontologies with a label in common under differing records, with labels
\* of their own, and one whose entity labels are not unique.
MergeOntologies ==
    { [entities |-> es, relations |-> rs] :
        es \in { <<>>,
                 <<Entity("A", <<>>)>>,
                 <<Entity("C", <<>>)>>,
                 <<Entity("A", <<AttrFull>>), Entity("B", <<>>)>>,
                 <<Entity("B", <<AttrFull>>), Entity("A", <<>>)>>,
                 <<Entity("C", <<AttrFull>>), Entity("A", <<AttrDefault>>)>>,
                 <<Entity("A", <<>>), Entity("A", <<AttrFull>>)>> },
        rs \in { <<Relation("R", <<>>)>>,
                 <<Relation("S", <<>>), Relation("R", <<AttrFull>>)>> } }

MergeCall ==
    /\ pc = "merge"
    /\ Len(log) < MaxMerges
    /\ \E b \in MergeOntologies :
          /\ ontology' = merge_ontologies(ontology, b)
          /\ existing' = ontology
          /\ discovered' = b
          /\ log' = Append(log, [ev |-> "merge", a |-> ontology, b |-> b])
    /\ UNCHANGED <<buildFrame, pc, ontoFile, initial_sources, successful_sources,
                   all_sources, raw_json, kg>>

MergeInit ==
    /\ WriterInit
    /\ DefaultConfig
    /\ plan = <<>>
    /\ env = NoEnv
    /\ passIdx = 0
    /\ dirIdx = 0
    /\ fileIdx = 0
    /\ chunkIdx = 0
    /\ log = <<>>
    /\ pc = "merge"
    /\ ontoFile = NoFile
    /\ initial_sources = <<>>
    /\ successful_sources = <<>>
    /\ all_sources = <<>>
    /\ raw_json = Null
    /\ kg = <<>>
    /\ existing = Null
    /\ discovered = Null
    /\ ontology \in MergeOntologies

SpecMerge == MergeInit /\ [][MergeCall]_vars

(***************************************************************************)
(* The ask command (app/cli_commands/ask.py): one try around the whole     *)
(* command.  The model, the knowledge graph and its chat session belong to *)
(* the SDK: each call returns or raises.                                   *)
(***************************************************************************)
AskCheckOntology ==
    /\ pc = "a_check"
    /\ ontoFile.exists
    /\ pc' = "a_load"
    /\ log' = Append(log, Step("asking"))
    /\ UNCHANGED <<buildFrame, buildVars>>

\* The ontology is reported missing and the command goes on.
AskMissingOntologyGoesOn ==
    /\ pc = "a_check"
    /\ ~ontoFile.exists
    /\ pc' = "a_model"
    /\ log' = log \o <<Step("asking"), Step("not_found")>>
    /\ UNCHANGED <<buildFrame, buildVars>>

\* `if not os.path.exists(config.ONTOLOGY_FILE)`: the error is printed and
\* typer.Exit raised, which the except of the command reports.
AskMissingOntology ==
    /\ pc = "a_check"
    /\ ~ontoFile.exists
    /\ pc' = "a_failed"
    /\ log' = log \o <<Step("asking"), Step("not_found"), [ev |-> "error", at |-> pc]>>
    /\ UNCHANGED <<buildFrame, buildVars>>

\* An exception in the try: an ontology file that cannot be decoded or
\* loaded, or a call of the SDK that raises.
AskRaises ==
    /\ pc \in {"a_load", "a_model", "a_open", "a_send"}
    /\ pc' = "a_failed"
    /\ log' = Append(log, [ev |-> "error", at |-> pc])
    /\ UNCHANGED <<buildFrame, buildVars>>

AskLoad ==
    /\ pc = "a_load"
    /\ ontology' = FromJson(ontoFile.content)
    /\ pc' = "a_model"
    /\ log' = Append(log, Step("load"))
    /\ UNCHANGED <<buildFrame, ontoFile, initial_sources, successful_sources, all_sources, discovered,
                   raw_json, existing, kg>>

AskModel ==
    /\ pc = "a_model"
    /\ pc' = "a_open"
    /\ log' = Append(log, Step("model"))
    /\ UNCHANGED <<buildFrame, buildVars>>

AskOpenKg ==
    /\ pc = "a_open"
    /\ kg' = Append(kg, ontology)
    /\ pc' = "a_send"
    /\ log' = Append(log, Step("open_kg"))
    /\ UNCHANGED <<buildFrame, ontoFile, initial_sources, successful_sources, all_sources, discovered,
                   raw_json, existing, ontology>>

\* The question is sent to a chat session and the answer printed.
AskSend ==
    /\ pc = "a_send"
    /\ pc' = "a_done"
    /\ log' = log \o <<Step("send"), Step("answer")>>
    /\ UNCHANGED <<buildFrame, buildVars>>

AskNext ==
    \/ AskCheckOntology
    \/ AskMissingOntology
    \/ AskRaises
    \/ AskLoad
    \/ AskModel
    \/ AskOpenKg
    \/ AskSend

AskInit ==
    /\ WriterInit
    /\ DefaultConfig
    /\ BuildStart
    /\ plan = <<>>
    /\ env = NoEnv
    /\ passIdx = 0
    /\ dirIdx = 0
    /\ fileIdx = 0
    /\ chunkIdx = 0
    /\ log = <<>>
    /\ pc = "a_check"
    /\ ontoFile \in {NoFile} \cup { [exists |-> TRUE, content |-> c] : c \in RawSchemas }

SpecAsk == AskInit /\ [][AskNext]_vars

(***************************************************************************)
(* What the properties read.                                               *)
(***************************************************************************)
Key(node) == <<node.label, node.name>>
NodeKeys(g) == {Key(g.nodes[i]) : i \in 1..Len(g.nodes)}
EntityKey(entity) == <<Sanitize(entity.type), entity.name>>
Range(seq) == {seq[i] : i \in 1..Len(seq)}

\* The entity and relationship records of the last call's graph_data.
LastEntities ==
    IF last.kind = "dict" /\ {"entities", "relationships"} \subseteq DOMAIN last.v
    THEN ItemsOf(last.v.entities) ELSE <<>>
LastRelationships ==
    IF last.kind = "dict" /\ {"entities", "relationships"} \subseteq DOMAIN last.v
    THEN ItemsOf(last.v.relationships) ELSE <<>>

\* <<source name, target name, type>> of edge k of g.
EdgeTriple(g, k) ==
    <<g.nodes[g.edges[k].src].name, g.nodes[g.edges[k].dst].name, g.edges[k].type>>

\* g extends h: every node and edge of h is in g, at the same place.
Extends(g, h) ==
    /\ Len(h.nodes) <= Len(g.nodes)
    /\ \A i \in 1..Len(h.nodes) : g.nodes[i] = h.nodes[i]
    /\ Len(h.edges) <= Len(g.edges)
    /\ \A k \in 1..Len(h.edges) : g.edges[k] = h.edges[k]

(***************************************************************************)
(* C1.  Upsert idempotence: a payload of well-formed records applied       *)
(* twice to an empty graph leaves the nodes (count, descriptions) and the  *)
(* edges that applying it once left.                                       *)
(***************************************************************************)
C1_UpsertIdempotent ==
    (ncalls = 2 /\ repeat /\ WellFormed(last))
        => /\ graph.nodes = prev.nodes
           /\ graph.edges = prev.edges

C1_Witness ==
    /\ ncalls = 2
    /\ repeat
    /\ WellFormed(last)
    /\ Len(graph.nodes) >= 2
    /\ Len(graph.edges) >= 1

(***************************************************************************)
(* C2.  Node key invariant: at most one node per (label, name), the label  *)
(* being the sanitized entity type; a call whose entities all have a key   *)
(* that is already in the graph creates no node.                           *)
(***************************************************************************)
C2_NodeKeyInvariant ==
    /\ \A i, j \in 1..Len(graph.nodes) :
          Key(graph.nodes[i]) = Key(graph.nodes[j]) => i = j
    /\ (\A k \in 1..Len(LastEntities) :
            WellFormedEntity(LastEntities[k])
                => EntityKey(LastEntities[k]) \in NodeKeys(prev))
        => graph.nodes = prev.nodes

C2_Witness ==
    /\ ncalls = 2
    /\ ~result.raised
    /\ result.printed
    /\ Len(LastEntities) >= 1
    /\ \A k \in 1..Len(LastEntities) :
          /\ WellFormedEntity(LastEntities[k])
          /\ EntityKey(LastEntities[k]) \in NodeKeys(prev)
    /\ \E k \in 1..Len(LastEntities) :
          LastEntities[k].type # Sanitize(LastEntities[k].type)

(***************************************************************************)
(* C3.  As claimed: for each (source name, target name, relationship type) *)
(* at most one edge of that type goes from a node named source to a node   *)
(* named target.                                                           *)
(***************************************************************************)
C3_OneEdgePerNameTriple ==
    \A k1, k2 \in 1..Len(graph.edges) :
        EdgeTriple(graph, k1) = EdgeTriple(graph, k2) => k1 = k2

(***************************************************************************)
(* C3, amended.  For each source node, target node and relationship type   *)
(* at most one edge of that type goes from the source node to the target   *)
(* node, however many times the triple was applied.                        *)
(***************************************************************************)
C3_OneEdgePerNodePair ==
    \A k1, k2 \in 1..Len(graph.edges) :
        graph.edges[k1] = graph.edges[k2] => k1 = k2

\* A triple whose edge exists is applied again.
C3_Witness ==
    /\ ncalls = 2
    /\ ~result.raised
    /\ \E r \in 1..Len(LastRelationships) : \E k \in 1..Len(prev.edges) :
          /\ WellFormedRelationship(LastRelationships[r])
          /\ EdgeTriple(prev, k) = <<LastRelationships[r].source,
                                     LastRelationships[r].target,
                                     Sanitize(LastRelationships[r].type)>>

(***************************************************************************)
(* C5.  Create-only description: a call leaves every node it finds with    *)
(* all its attributes, and a node it creates has the description of the    *)
(* first entity of the payload with its type and name, or "" when that     *)
(* entity has none.                                                        *)
(***************************************************************************)
C5_CreateOnlyDescription ==
    /\ Len(prev.nodes) <= Len(graph.nodes)
    /\ \A i \in 1..Len(prev.nodes) : graph.nodes[i] = prev.nodes[i]
    /\ \A i \in (Len(prev.nodes) + 1)..Len(graph.nodes) :
          \E k \in 1..Len(LastEntities) :
             /\ WellFormedEntity(LastEntities[k])
             /\ EntityKey(LastEntities[k]) = Key(graph.nodes[i])
             /\ graph.nodes[i].description =
                   (IF "description" \in DOMAIN LastEntities[k]
                    THEN LastEntities[k].description ELSE "")
             /\ \A m \in 1..(k - 1) :
                   WellFormedEntity(LastEntities[m])
                       => EntityKey(LastEntities[m]) # Key(graph.nodes[i])

\* An entity is upserted whose node exists with another description, one of
\* them created from an entity without a description.
C5_Witness ==
    /\ ncalls = 2
    /\ ~result.raised
    /\ \E k \in 1..Len(LastEntities) : \E i \in 1..Len(prev.nodes) :
          /\ WellFormedEntity(LastEntities[k])
          /\ "description" \in DOMAIN LastEntities[k]
          /\ EntityKey(LastEntities[k]) = Key(prev.nodes[i])
          /\ LastEntities[k].description # prev.nodes[i].description
          /\ prev.nodes[i].description = ""
          /\ graph.nodes[i].description = ""

(***************************************************************************)
(* C6.  Missing endpoint is a no-op: in a call with a payload of           *)
(* well-formed records no error is raised, the relationships create no     *)
(* node, every edge created joins nodes named as a relationship record of  *)
(* the payload says (a record with an unmatched name adds nothing), and    *)
(* every record whose names match nodes has its edges, also after a record *)
(* with an unmatched name.                                                 *)
(***************************************************************************)
C6_MissingEndpointNoOp ==
    WellFormed(last) =>
        /\ ~result.raised
        /\ NodeKeys(graph) =
              NodeKeys(prev) \cup {EntityKey(LastEntities[k]) : k \in 1..Len(LastEntities)}
        /\ Len(graph.nodes) = Cardinality(NodeKeys(graph))
        /\ Extends(graph, prev)
        /\ \A k \in (Len(prev.edges) + 1)..Len(graph.edges) :
              \E r \in 1..Len(LastRelationships) :
                 EdgeTriple(graph, k) = <<LastRelationships[r].source,
                                          LastRelationships[r].target,
                                          Sanitize(LastRelationships[r].type)>>
        /\ \A r \in 1..Len(LastRelationships) :
              \A a, b \in 1..Len(graph.nodes) :
                 (/\ graph.nodes[a].name = LastRelationships[r].source
                  /\ graph.nodes[b].name = LastRelationships[r].target)
                 => [src |-> a, dst |-> b, type |-> Sanitize(LastRelationships[r].type)]
                        \in Range(graph.edges)

\* A record with an unmatched target is followed by a record that gets its edge.
C6_Witness ==
    /\ WellFormed(last)
    /\ ncalls >= 1
    /\ \E r1, r2 \in 1..Len(LastRelationships) :
          /\ r1 < r2
          /\ MatchRows(graph, LastRelationships[r1].source,
                       LastRelationships[r1].target) = <<>>
          /\ MatchRows(graph, LastRelationships[r2].source,
                       LastRelationships[r2].target) # <<>>
          /\ Len(graph.edges) > Len(prev.edges)

(***************************************************************************)
(* What the properties of the pipeline read.                               *)
(***************************************************************************)
\* The documents of the run that reach the chunk loop: [pass, dir, file].
TextDocs ==
    { u \in UNION { UNION { { [pass |-> p, dir |-> plan[p][d], file |-> f] :
                                f \in 1..Len(env[plan[p][d]].files) } :
                            d \in 1..Len(plan[p]) } :
                    p \in 1..Len(plan) } :
        /\ env[u.dir].files[u.file].pdf
        /\ env[u.dir].files[u.file].text.kind = "text"
        /\ ~env[u.dir].files[u.file].text.blank }

FileOf(u) == env[u.dir].files[u.file]

\* The places in the log of the events of chunk c of document u.
EventsAt(u, c) ==
    { i \in 1..Len(log) : /\ log[i].pass = u.pass
                          /\ log[i].dir = u.dir
                          /\ log[i].file = u.file
                          /\ log[i].chunk = c }

\* The service's reply for the chunk of a chunk event.
ReplyOf(e) == env[e.dir].files[e.file].replies[e.chunk]

\* A reply of the expected structure: one object with an `entities` list and
\* a `relationships` list.
ExpectedStructure(value) ==
    /\ value.kind = "dict"
    /\ DOMAIN value.v = {"entities", "relationships"}
    /\ value.v.entities.kind = "list"
    /\ value.v.relationships.kind = "list"

GoodReply(reply) == reply.kind = "json" /\ WellFormed(reply.value)

\* The graph that upserting, in order, the parseable replies gives.
RECURSIVE ReplayReplies(_, _, _)
ReplayReplies(g, replies, c) ==
    IF c > Len(replies) THEN g
    ELSE ReplayReplies(IF replies[c].kind = "json"
                       THEN UpdateGraph(g, replies[c].value).graph ELSE g,
                       replies, c + 1)

\* The entity records, with a name, of the replies extracted so far.
ExtractedEntities ==
    UNION { Range(ItemsOf(ReplyOf(log[i]).value.v.entities)) :
              i \in { j \in 1..Len(log) :
                        /\ log[j].chunk > 0
                        /\ ReplyOf(log[j]).kind = "json"
                        /\ ExpectedStructure(ReplyOf(log[j]).value) } }

\* Every reply extracted so far is a payload of well-formed records.
AllExtractedWellFormed ==
    \A i \in 1..Len(log) :
        (log[i].chunk > 0 /\ ReplyOf(log[i]).kind = "json")
            => WellFormed(ReplyOf(log[i]).value)

(***************************************************************************)
(* C4.  As claimed: after both passes (each reply being the same on every  *)
(* pass, all of them payloads of well-formed records) the number of nodes  *)
(* is the number of distinct entity names extracted.                       *)
(***************************************************************************)
C4_CountIsDistinctNames ==
    (pc = "done" /\ AllExtractedWellFormed)
        => Len(graph.nodes) = Cardinality({e.name : e \in ExtractedEntities})

(***************************************************************************)
(* C4, amended.  After both passes the nodes are one per (sanitized type,  *)
(* name) pair, each pair that of an extracted entity; when every extracted *)
(* reply is a payload of well-formed records the number of nodes is the    *)
(* number of distinct (sanitized type, name) pairs extracted.              *)
(***************************************************************************)
C4_CountIsDistinctTypeNamePairs ==
    pc = "done" =>
        /\ Len(graph.nodes) = Cardinality(NodeKeys(graph))
        /\ NodeKeys(graph) \subseteq
              {EntityKey(e) : e \in {x \in ExtractedEntities : WellFormedEntity(x)}}
        /\ AllExtractedWellFormed
              => Len(graph.nodes) = Cardinality({EntityKey(e) : e \in ExtractedEntities})

\* The build plan ran both passes over an initial and an additional document,
\* and one name came out under two types.
C4_Witness ==
    /\ pc = "done"
    /\ plan = BuildPlan
    /\ AllExtractedWellFormed
    /\ \E i, j \in 1..Len(log) :
          /\ log[i].ev = "updated" /\ log[i].dir = "initial" /\ log[i].pass = 2
          /\ log[j].ev = "updated" /\ log[j].dir = "additional"
    /\ Len(graph.nodes) = 3
    /\ Cardinality({e.name : e \in ExtractedEntities}) = 2

(***************************************************************************)
(* C7.  Nothing is deleted by ingestion: every step of a run leaves every  *)
(* node (label and name) and every edge that was in the graph.             *)
(***************************************************************************)
C7_NothingDeleted ==
    [][/\ Len(graph.nodes) <= Len(graph'.nodes)
       /\ \A i \in 1..Len(graph.nodes) : Key(graph'.nodes[i]) = Key(graph.nodes[i])
       /\ Len(graph.edges) <= Len(graph'.edges)
       /\ \A k \in 1..Len(graph.edges) : graph'.edges[k] = graph.edges[k]]_vars

\* A later upsert has added nodes and edges to a graph that had some.
C7_Witness ==
    /\ pc = "done"
    /\ ncalls >= 2
    /\ Len(prev.nodes) >= 1
    /\ Len(prev.edges) >= 1
    /\ Len(graph.nodes) > Len(prev.nodes)
    /\ Len(graph.edges) > Len(prev.edges)

(***************************************************************************)
(* C8.  Extraction failure isolation: a chunk whose service call raises is *)
(* followed by the next chunk of the document; in a document whose other   *)
(* replies are payloads of well-formed records every chunk is processed    *)
(* once, the failing chunks print the error and change nothing, the others *)
(* are upserted, and (one document, from an empty graph) the graph is the  *)
(* one that upserting the other chunks' payloads in order gives.           *)
(***************************************************************************)
C8_ExtractionFailureIsolated ==
    /\ \A i \in 1..Len(log) :
          (/\ log[i].ev = "extract_error"
           /\ log[i].chunk < Len(env[log[i].dir].files[log[i].file].replies))
          => IF i < Len(log)
             THEN /\ log[i + 1].file = log[i].file
                  /\ log[i + 1].chunk = log[i].chunk + 1
             ELSE /\ pc = "chunk"
                  /\ fileIdx = log[i].file
                  /\ chunkIdx = log[i].chunk + 1
    /\ pc = "done" =>
          \A u \in TextDocs :
             (\A c \in 1..Len(FileOf(u).replies) :
                 FileOf(u).replies[c] = ServiceRaises \/ GoodReply(FileOf(u).replies[c]))
             => /\ \A c \in 1..Len(FileOf(u).replies) :
                      /\ Cardinality(EventsAt(u, c)) = 1
                      /\ \A i \in EventsAt(u, c) :
                            IF FileOf(u).replies[c] = ServiceRaises
                            THEN log[i].ev = "extract_error" /\ ~log[i].changed
                            ELSE log[i].ev = "updated"
                /\ Cardinality(TextDocs) = 1
                      => graph = ReplayReplies(EmptyGraph, FileOf(u).replies, 1)

\* Three chunks, the second call raises: chunks 1 and 3 are upserted.
C8_Witness ==
    /\ pc = "done"
    /\ \E u \in TextDocs :
          /\ Len(FileOf(u).replies) = 3
          /\ GoodReply(FileOf(u).replies[1])
          /\ FileOf(u).replies[2] = ServiceRaises
          /\ GoodReply(FileOf(u).replies[3])
          /\ FileOf(u).replies[1] # FileOf(u).replies[3]
          /\ Cardinality({i \in 1..Len(log) : log[i].ev = "updated"}) = 2
          /\ Cardinality({i \in 1..Len(log) : log[i].ev = "extract_error"}) = 1
    /\ Len(graph.nodes) = 3

(***************************************************************************)
(* C9.  As claimed: a chunk whose reply is not parseable as the expected   *)
(* structure (not JSON, or JSON of another shape) leaves the graph         *)
(* unchanged, and the other chunks of the document (here payloads of       *)
(* well-formed records) are still extracted and upserted.                  *)
(***************************************************************************)
C9_MalformedReplyContributesNothing ==
    pc = "done" =>
        \A u \in TextDocs : \A c \in 1..Len(FileOf(u).replies) :
           (/\ \/ FileOf(u).replies[c].kind = "notjson"
               \/ /\ FileOf(u).replies[c].kind = "json"
                  /\ ~ExpectedStructure(FileOf(u).replies[c].value)
            /\ \A d \in 1..Len(FileOf(u).replies) :
                  d # c => GoodReply(FileOf(u).replies[d]))
           => /\ \A i \in EventsAt(u, c) : ~log[i].changed
              /\ \A d \in 1..Len(FileOf(u).replies) :
                    d # c => \E i \in EventsAt(u, d) : log[i].ev = "updated"

(***************************************************************************)
(* C10.  As claimed: a malformed record inside a payload of the expected   *)
(* structure is skipped on its own: the well-formed records of the payload *)
(* are applied and the later chunks of the document are processed.         *)
(***************************************************************************)
C10_BadRecordSkippedAlone ==
    pc = "done" =>
        \A u \in TextDocs : \A c \in 1..Len(FileOf(u).replies) :
           (/\ FileOf(u).replies[c].kind = "json"
            /\ ExpectedStructure(FileOf(u).replies[c].value)
            /\ ~WellFormed(FileOf(u).replies[c].value)
            /\ \A d \in 1..Len(FileOf(u).replies) :
                  d # c => GoodReply(FileOf(u).replies[d]))
           => LET es == ItemsOf(FileOf(u).replies[c].value.v.entities)
                  rs == ItemsOf(FileOf(u).replies[c].value.v.relationships)
              IN /\ \A k \in 1..Len(es) :
                       WellFormedEntity(es[k]) => EntityKey(es[k]) \in NodeKeys(graph)
                 /\ \A k \in 1..Len(rs) : \A a, b \in 1..Len(graph.nodes) :
                       (/\ WellFormedRelationship(rs[k])
                        /\ graph.nodes[a].name = rs[k].source
                        /\ graph.nodes[b].name = rs[k].target)
                       => [src |-> a, dst |-> b, type |-> Sanitize(rs[k].type)]
                              \in Range(graph.edges)
                 /\ \A d \in (c + 1)..Len(FileOf(u).replies) : EventsAt(u, d) # {}

(***************************************************************************)
(* What the properties of a run over several files read.                   *)
(***************************************************************************)
\* The position of directory `name` in pass p of the plan.
DirPos(p, name) == CHOOSE d \in 1..Len(plan[p]) : plan[p][d] = name

\* Event a was logged at an earlier place of the run than event b: an earlier
\* pass, directory, file of the listing or chunk of the file.
Earlier(a, b) ==
    \/ a.pass < b.pass
    \/ a.pass = b.pass /\ DirPos(a.pass, a.dir) < DirPos(b.pass, b.dir)
    \/ a.pass = b.pass /\ a.dir = b.dir /\ a.file < b.file
    \/ a.pass = b.pass /\ a.dir = b.dir /\ a.file = b.file /\ a.chunk < b.chunk

\* process_directory has returned from directory d of pass p.
VisitDone(p, d) ==
    \/ pc = "done"
    \/ p < passIdx
    \/ p = passIdx /\ d < dirIdx

\* The events of file f of directory d of pass p.
FileEvents(p, d, f) ==
    {i \in 1..Len(log) :
        log[i].pass = p /\ log[i].dir = plan[p][d] /\ log[i].file = f}

\* The events that show partition_pdf was called on the file: its failure,
\* the blank text, or the first chunk of the text.
AttemptEvents(p, d, f) ==
    {i \in FileEvents(p, d, f) :
        log[i].ev \in {"file_error", "blank"} \/ log[i].chunk = 1}

\* A failure of the file: parsing, or an exception in a chunk's body.
FailureEvents(p, d, f) ==
    {i \in FileEvents(p, d, f) :
        log[i].ev \in {"file_error", "extract_error", "extract_raised", "upsert_raised"}}

(***************************************************************************)
(* C11.  Per-file failure isolation: the events of a run are in listing    *)
(* order with no place visited twice; once process_directory has returned  *)
(* from a directory, every entry whose name ends in .pdf was attempted     *)
(* exactly once, whatever failed on the entries before it, and an entry    *)
(* with another name was skipped without parsing, extraction or upsert.    *)
(***************************************************************************)
C11_PerFileIsolation ==
    /\ \A i, j \in 1..Len(log) : i < j => Earlier(log[i], log[j])
    /\ \A p \in 1..Len(plan) : \A d \in 1..Len(plan[p]) :
          (VisitDone(p, d) /\ env[plan[p][d]].exists)
          => \A f \in 1..Len(env[plan[p][d]].files) :
                IF env[plan[p][d]].files[f].pdf
                THEN Cardinality(AttemptEvents(p, d, f)) = 1
                ELSE /\ Cardinality(FileEvents(p, d, f)) = 1
                     /\ \A i \in FileEvents(p, d, f) :
                           log[i].ev = "skip_nonpdf" /\ ~log[i].changed

\* A directory was processed to its end in which a file failed, a later
\* entry was not a PDF and a still later file was upserted.
C11_Witness ==
    /\ pc = "done"
    /\ \E p \in 1..Len(plan) : \E d \in 1..Len(plan[p]) :
       \E f, g, h \in 1..Len(env[plan[p][d]].files) :
          /\ f < g /\ g < h
          /\ FailureEvents(p, d, f) # {}
          /\ ~env[plan[p][d]].files[g].pdf
          /\ \E i \in FileEvents(p, d, h) : log[i].ev = "updated"

(***************************************************************************)
(* C12.  As claimed: a failure raised while a batch is processed (a        *)
(* failure to list its directory included) stays in that batch: when the   *)
(* run has ended, process_directory has been called for every batch of the *)
(* plan, the additional one after the initial one.                         *)
(***************************************************************************)
C12_FailureConfinedToBatch ==
    (pc \in {"done", "crashed"}) => passIdx = Len(plan)

(***************************************************************************)
(* What the properties of the build read.                                  *)
(***************************************************************************)
\* The places of the steps named ev in the log.
StepsOf(ev) == {i \in 1..Len(log) : log[i].ev = ev}

\* Every step named a is before every step named b.
AllBefore(a, b) == \A i \in StepsOf(a) : \A j \in StepsOf(b) : i < j

(***************************************************************************)
(* C13.  Build phase ordering: when the ontology is about to be written    *)
(* it is the discovered one, merged into the on-disk one exactly when the  *)
(* file exists, and no knowledge graph has been opened and nothing         *)
(* ingested; a knowledge graph is opened, and anything ingested, only      *)
(* after the discovery and the write of that ontology; a build that ends   *)
(* without failure has discovered, written and opened the graph once each, *)
(* and ingested twice: the initial sources, then the initial and the       *)
(* additional sources.                                                     *)
(***************************************************************************)
C13_BuildPhaseOrder ==
    /\ pc = "b_write"
       => /\ kg = <<>> /\ StepsOf("ingest") = {} /\ StepsOf("write") = {}
          /\ Cardinality(StepsOf("discover")) = 1
          /\ ontoFile.exists <=> StepsOf("merge") # {}
          /\ ~ontoFile.exists => ontology = discovered
          /\ ontoFile.exists
             => /\ \A i \in 1..Len(ontology.entities) :
                      \/ \E j \in 1..Len(Get(ontoFile.content, "entities", <<>>)) :
                            ontoFile.content.entities[j].label = ontology.entities[i].label
                      \/ \E j \in 1..Len(discovered.entities) :
                            discovered.entities[j] = ontology.entities[i]
                /\ \A j \in 1..Len(Get(ontoFile.content, "entities", <<>>)) :
                      \E i \in 1..Len(ontology.entities) :
                         ontoFile.content.entities[j].label = ontology.entities[i].label
                /\ \A j \in 1..Len(discovered.entities) :
                      \E i \in 1..Len(ontology.entities) :
                         discovered.entities[j].label = ontology.entities[i].label
    /\ (kg # <<>> \/ StepsOf("ingest") # {})
       => /\ kg = <<ontology>>
          /\ ontoFile = [exists |-> TRUE, content |-> ToJson(ontology)]
          /\ Cardinality(StepsOf("open_kg")) = 1
          /\ Cardinality(StepsOf("write")) = 1
          /\ AllBefore("discover", "write")
          /\ AllBefore("merge", "write")
          /\ AllBefore("write", "open_kg")
          /\ AllBefore("open_kg", "ingest")
    /\ pc = "b_done"
       => /\ Cardinality(StepsOf("discover")) = 1
          /\ Cardinality(StepsOf("ingest")) = 2
          /\ \E i, j \in StepsOf("ingest") :
                /\ i < j
                /\ log[i].sources = Sources("initial")
                /\ log[j].sources = Sources("initial") \o Sources("additional")

\* A build that ended without failure, having merged the discovered
\* ontology into the one on disk and ingested additional PDFs.
C13_Witness ==
    /\ pc = "b_done"
    /\ StepsOf("merge") # {}
    /\ Sources("additional") # <<>>
    /\ Len(ontology.entities) > 1

(***************************************************************************)
(* What the properties of the chunk loop read.  A chunk is the slice       *)
(* full_text[start : start + chunk_size], the characters at the offsets    *)
(* start .. stop - 1 of the text.                                          *)
(***************************************************************************)
Min(a, b) == IF a < b THEN a ELSE b

\* The chunks of document u under the pipeline's configuration.
ChunksOf(u) == Chunks(FileOf(u).text.len, chunkSize, chunkOverlap)

\* The offsets i * step, i >= 0, below the length of the text.
StartOffsets(len, step) == { o \in 0..(len - 1) : o % step = 0 }

\* The places in the log of the extraction calls made for document u.
ChunkEvents(u) ==
    { i \in 1..Len(log) : /\ log[i].pass = u.pass /\ log[i].dir = u.dir
                          /\ log[i].file = u.file /\ log[i].chunk > 0 }

C15_ShortDocumentOneChunk ==
    \A u \in TextDocs :
       FileOf(u).text.len < chunkSize
       => /\ Len(ChunksOf(u)) = 1
          /\ ChunksOf(u)[1] = [start |-> 0, stop |-> FileOf(u).text.len]
          /\ Cardinality(ChunkEvents(u)) <= 1
          /\ pc = "done" => Cardinality(ChunkEvents(u)) = 1

(***************************************************************************)
(* C16.  Chunk coverage: every character position of a non-blank text      *)
(* lies in the window [start, start + chunk_size) of at least one chunk,   *)
(* and in the chunk itself.                                                *)
(***************************************************************************)
C16_ChunkCoverage ==
    \A u \in TextDocs :
       \A pos \in 0..(FileOf(u).text.len - 1) :
          \E k \in 1..Len(ChunksOf(u)) :
             /\ ChunksOf(u)[k].start <= pos
             /\ pos < ChunksOf(u)[k].start + chunkSize
             /\ pos < ChunksOf(u)[k].stop

\* A text of several chunks whose length is not a multiple of the step, its
\* last character in the last chunk only.
C16_Witness ==
    \E u \in TextDocs :
        /\ pc = "done"
        /\ Len(ChunksOf(u)) >= 2
        /\ FileOf(u).text.len % (chunkSize - chunkOverlap) # 0
        /\ ChunksOf(u)[Len(ChunksOf(u)) - 1].stop < FileOf(u).text.len
        /\ Cardinality(ChunkEvents(u)) = Len(ChunksOf(u))

(***************************************************************************)
(* C17.  As claimed: every two consecutive chunks of a non-blank text,     *)
(* other than the last two, share exactly chunk_overlap characters: the    *)
(* last chunk_overlap characters of the earlier chunk are the first        *)
(* chunk_overlap characters of the later one.                              *)
(***************************************************************************)
C17_ConsecutiveChunksOverlap ==
    \A u \in TextDocs :
       \A k \in 1..(Len(ChunksOf(u)) - 2) :
          /\ ChunksOf(u)[k].stop - ChunksOf(u)[k].start >= chunkOverlap
          /\ ChunksOf(u)[k + 1].stop - ChunksOf(u)[k + 1].start >= chunkOverlap
          /\ ChunksOf(u)[k].stop - chunkOverlap = ChunksOf(u)[k + 1].start

(***************************************************************************)
(* C18.  Blank document: the step taken on a PDF whose text is empty or    *)
(* whitespace only makes no extraction call and no update_graph call,      *)
(* leaves the graph as it is, reports no error (it prints that no text was *)
(* found) and goes to the next entry of the listing, or past the listing   *)
(* when the file is the last one.                                          *)
(***************************************************************************)
C18_BlankDocumentSkipped ==
    [][(/\ pc = "file"
        /\ CurrentFile.pdf
        /\ CurrentFile.text.kind = "text"
        /\ CurrentFile.text.blank)
       => /\ graph' = graph
          /\ ncalls' = ncalls
          /\ log' = Append(log, Event("blank", FALSE))
          /\ chunkIdx' = 0
          /\ IF fileIdx < Len(Listing)
             THEN pc' = "file" /\ fileIdx' = fileIdx + 1
                  /\ passIdx' = passIdx /\ dirIdx' = dirIdx
             ELSE pc' \in {"listdir", "done"}]_vars

\* An empty text and a whitespace-only text were skipped and a later file
\* of the same directory was upserted.
C18_Witness ==
    \E i, j, k \in 1..Len(log) :
        /\ i < k /\ j < k
        /\ log[i].ev = "blank" /\ log[j].ev = "blank"
        /\ env[log[i].dir].files[log[i].file].text.len = 0
        /\ env[log[j].dir].files[log[j].file].text.len > 0
        /\ log[k].ev = "updated"
        /\ log[k].pass = log[i].pass /\ log[k].dir = log[i].dir
        /\ log[k].pass = log[j].pass

(***************************************************************************)
(* What the properties of the ontology utilities read.                     *)
(***************************************************************************)
Labels(seq) == {seq[i].label : i \in 1..Len(seq)}

\* The record that a list of records holds for a label: the last one of
\* that label (the only one when labels are unique in the list).
RecordOf(seq, label) ==
    seq[CHOOSE i \in 1..Len(seq) :
            /\ seq[i].label = label
            /\ \A j \in (i + 1)..Len(seq) : seq[j].label # label]

\* m is the first-source-wins union by label of the lists a and b.
FirstWinsUnion(m, a, b) ==
    /\ Labels(m) = Labels(a) \cup Labels(b)
    /\ \A i, j \in 1..Len(m) : m[i].label = m[j].label => i = j
    /\ \A i \in 1..Len(m) :
          /\ m[i].label \in Labels(a) => m[i] = RecordOf(a, m[i].label)
          /\ m[i].label \notin Labels(a) => m[i] \in {b[j] : j \in 1..Len(b)}

\* Merging in the other order gives the same labels, and another record
\* for a label of both lists whose records differ.
OrderMatters(m, n, a, b) ==
    /\ Labels(m) = Labels(n)
    /\ \A l \in Labels(a) \cap Labels(b) :
          RecordOf(a, l) # RecordOf(b, l) => RecordOf(m, l) # RecordOf(n, l)

(***************************************************************************)
(* C19.  Ontology merge: merge_ontologies(a, b) holds, for entities and    *)
(* for relations, every label of a or of b exactly once and no other; a    *)
(* label of a has a's record, b's record being dropped; merge(b, a) has    *)
(* the same labels and, for a label of both whose records differ, another  *)
(* record.  Here a is the ontology loaded from the file and b the          *)
(* discovered one.                                                         *)
(***************************************************************************)
C19_MergeFirstSourceWins ==
    (pc = "b_write" /\ existing # Null)
    => /\ FirstWinsUnion(ontology.entities, existing.entities, discovered.entities)
       /\ FirstWinsUnion(ontology.relations, existing.relations, discovered.relations)
       /\ OrderMatters(ontology.entities,
                       merge_ontologies(discovered, existing).entities,
                       existing.entities, discovered.entities)
       /\ OrderMatters(ontology.relations,
                       merge_ontologies(discovered, existing).relations,
                       existing.relations, discovered.relations)

\* The merge of two ontologies that have an entity label in common with
\* different records, and each an entity label the other has not.
C19_Witness ==
    /\ pc = "b_write"
    /\ existing # Null
    /\ \E l \in Labels(existing.entities) \cap Labels(discovered.entities) :
          RecordOf(existing.entities, l) # RecordOf(discovered.entities, l)
    /\ Labels(existing.entities) \ Labels(discovered.entities) # {}
    /\ Labels(discovered.entities) \ Labels(existing.entities) # {}
    /\ Labels(existing.relations) \cap Labels(discovered.relations) # {}

\* The value setdefault gives an absent key of an attribute dict.
DefaultOf(key) == IF key = "type" THEN "string" ELSE FALSE

\* Attribute dict `after` is `before` with nothing changed and, at most,
\* defaults added for absent keys among type, unique and required.
OnlyAbsentFilled(before, after) ==
    /\ DOMAIN before \subseteq DOMAIN after
    /\ \A k \in DOMAIN before : after[k] = before[k]
    /\ \A k \in DOMAIN after \ DOMAIN before :
          k \in {"type", "unique", "required"} /\ after[k] = DefaultOf(k)

\* Record `after` is `before` but, at most, for the value of key.
SameBut(before, after, key) ==
    /\ DOMAIN after = DOMAIN before
    /\ \A k \in DOMAIN before \ {key} : after[k] = before[k]

(***************************************************************************)
(* C20.  The normaliser fills only absent keys: normalise_schema gives the *)
(* schema it was given, but that an attribute dict may have gained `type`  *)
(* "string", `unique` false or `required` false where it had no such key;  *)
(* every key an attribute dict had, and every other part of the schema,    *)
(* has its value.  Here the schema is the decoded ontology file.           *)
(***************************************************************************)
C20_NormaliserFillsOnlyAbsent ==
    (pc = "b_write" /\ raw_json # Null)
    => LET before == ontoFile.content
           after == raw_json
       IN /\ SameBut(before, after, "entities")
          /\ "entities" \in DOMAIN before
             => /\ Len(after.entities) = Len(before.entities)
                /\ \A i \in 1..Len(before.entities) :
                      /\ SameBut(before.entities[i], after.entities[i], "attributes")
                      /\ "attributes" \in DOMAIN before.entities[i]
                         => /\ Len(after.entities[i].attributes)
                                 = Len(before.entities[i].attributes)
                            /\ \A j \in 1..Len(before.entities[i].attributes) :
                                  OnlyAbsentFilled(before.entities[i].attributes[j],
                                                   after.entities[i].attributes[j])

\* A schema was normalised in which an attribute dict had a `type` other
\* than the default and no `unique`, and has `unique` now.
C20_Witness ==
    /\ pc = "b_write"
    /\ raw_json # Null
    /\ "entities" \in DOMAIN ontoFile.content
    /\ \E i \in 1..Len(ontoFile.content.entities) :
          /\ "attributes" \in DOMAIN ontoFile.content.entities[i]
          /\ \E j \in 1..Len(ontoFile.content.entities[i].attributes) :
                LET attr == ontoFile.content.entities[i].attributes[j] IN
                /\ "type" \in DOMAIN attr
                /\ attr.type = "number"
                /\ "unique" \notin DOMAIN attr
                /\ raw_json.entities[i].attributes[j].unique = FALSE
                /\ raw_json.entities[i].attributes[j].type = "number"

\* Every attribute dict of the records of a list has type, unique and
\* required.
AttributesComplete(records) ==
    \A i \in 1..Len(records) :
       \A j \in 1..Len(Get(records[i], "attributes", <<>>)) :
          {"type", "unique", "required"} \subseteq DOMAIN records[i].attributes[j]

C22_NormaliserIdempotent ==
    (pc = "b_write" /\ raw_json # Null)
    => /\ raw_json = normalise_schema(ontoFile.content)
       /\ normalise_schema(raw_json) = raw_json

\* A schema was normalised that the normalisation changed.
C22_Witness ==
    /\ pc = "b_write"
    /\ raw_json # Null
    /\ raw_json # ontoFile.content

(***************************************************************************)
(* C23.  Extraction client outcome: in the step taken on a chunk, when the *)
(* service's reply is JSON-parseable the value extract_graph_from_chunk    *)
(* returns is the decoded reply (a true value is what update_graph is      *)
(* called with, a false one leaves the chunk without data), and otherwise  *)
(* (the service call raises, or the reply is not JSON) it prints the error *)
(* and returns None: nothing is written, and no exception leaves the call, *)
(* the chunk loop going on with the next chunk of the file.                *)
(***************************************************************************)
C23_ExtractionOutcome ==
    [][pc = "chunk"
       => LET reply == CurrentFile.replies[chunkIdx] IN
          IF reply.kind = "json"
          THEN IF Truthy(reply.value)
               THEN /\ ncalls' = ncalls + 1
                    /\ last' = reply.value
                    /\ log'[Len(log')].ev \in {"updated", "upsert_quiet", "upsert_raised"}
               ELSE /\ log' = Append(log, Event("no_data", FALSE))
                    /\ ncalls' = ncalls
                    /\ graph' = graph
          ELSE /\ log' = Append(log, Event("extract_error", FALSE))
               /\ ncalls' = ncalls
               /\ graph' = graph
               /\ IF chunkIdx < NumChunks(CurrentFile)
                  THEN pc' = "chunk" /\ chunkIdx' = chunkIdx + 1 /\ fileIdx' = fileIdx
                  ELSE pc' = "done"]_vars

\* A document of three chunks is done: the service raised on one, gave a
\* reply that is not JSON for the next and a payload for the last, which
\* was upserted.
C23_Witness ==
    /\ pc = "done"
    /\ \E u \in TextDocs :
          /\ Len(FileOf(u).replies) = 3
          /\ FileOf(u).replies[1].kind = "raise"
          /\ FileOf(u).replies[2].kind = "notjson"
          /\ \E i \in EventsAt(u, 1) : log[i].ev = "extract_error"
          /\ \E i \in EventsAt(u, 2) : log[i].ev = "extract_error"
          /\ \E i \in EventsAt(u, 3) : log[i].ev = "updated"

(***************************************************************************)
(* C24.  Missing ontology aborts ask: when the ontology file does not      *)
(* exist, ask, once past its check, has printed that the file was not      *)
(* found and has ended; it has constructed no model and no knowledge       *)
(* graph, sent nothing to a chat session and printed no answer.            *)
(***************************************************************************)
C24_AskWithoutOntology ==
    (pc \in {"a_check", "a_load", "a_model", "a_open", "a_send", "a_done", "a_failed"}
     /\ ~ontoFile.exists)
    => /\ pc \in {"a_check", "a_failed"}
       /\ pc = "a_failed" => Cardinality(StepsOf("not_found")) = 1
       /\ StepsOf("load") = {} /\ StepsOf("model") = {} /\ StepsOf("open_kg") = {}
       /\ StepsOf("send") = {} /\ StepsOf("answer") = {}
       /\ kg = <<>>
       /\ ontology = Null

\* ask has ended on a missing ontology file.
C24_Witness ==
    /\ pc = "a_failed"
    /\ ~ontoFile.exists
    /\ StepsOf("not_found") # {}

(***************************************************************************)
(* C25.  As claimed: every label interpolated into a query of update_graph *)
(* is the sanitized type, without a space, and has no character that is    *)
(* illegal in a label of the store's query language.                       *)
(***************************************************************************)
C25_LabelsLegal ==
    \A i \in 1..Len(result.labels) :
       /\ \A k \in 1..Len(result.labels[i]) : result.labels[i][k] # " "
       /\ LegalLabel(result.labels[i])

\* A payload that is empty or None, or a dict without the `entities` key or
\* without the `relationships` key.
EmptyOrLacksKey(data) ==
    \/ data \in {Null, Num(0), List(<<>>), EmptyDict}
    \/ data.kind = "dict" /\ {"entities", "relationships"} \ DOMAIN data.v # {}

(***************************************************************************)
(* C26.  Upsert return value: a call with a payload that is empty or None  *)
(* or lacks the `entities` or the `relationships` key returns 0, sends no  *)
(* query and leaves the graph as it was; a call that returns from a        *)
(* payload with both lists returns the number of entity records plus the   *)
(* number of relationship records, one query having been sent for each.    *)
(***************************************************************************)
C26_ReturnValue ==
    ncalls >= 1
    => /\ EmptyOrLacksKey(last)
          => /\ ~result.raised
             /\ result.ret = 0
             /\ result.queries = 0
             /\ graph = prev
       /\ (~EmptyOrLacksKey(last) /\ ~result.raised /\ last.kind = "dict")
          => /\ result.ret = Len(LastEntities) + Len(LastRelationships)
             /\ result.ret = result.queries

\* A call returned 3 for two entities and one relationship, after a call
\* with a payload without `relationships` that returned 0.
C26_Witness ==
    /\ ncalls >= 2
    /\ ~result.raised
    /\ result.ret = 3
    /\ Len(LastEntities) = 2
    /\ Len(LastRelationships) = 1
    /\ prev # EmptyGraph

\* The replies, in order, of the chunks of the documents of a listing that
\* reach the chunk loop.
RECURSIVE RepliesFrom(_, _)
RepliesFrom(files, f) ==
    IF f > Len(files) THEN <<>>
    ELSE (IF files[f].pdf /\ files[f].text.kind = "text" /\ ~files[f].text.blank
          THEN files[f].replies ELSE <<>>) \o RepliesFrom(files, f + 1)

\* The payloads P1..Pn extracted from the initial documents, the same on
\* every pass over them.
InitialPayloads ==
    LET replies == RepliesFrom(env["initial"].files, 1) IN
    SelectSeq(replies, LAMBDA r : r.kind = "json")

\* The graph P1..Pn applied in order to an empty graph give.
AfterFirstPass == ReplayReplies(EmptyGraph, InitialPayloads, 1)

\* build has gone over the initial documents twice and is about to list the
\* additional ones; every payload was made of well-formed records.
InitialIngestedTwice ==
    /\ plan = BuildPlan
    /\ passIdx = 2
    /\ dirIdx = 2
    /\ pc = "listdir"
    /\ \A i \in 1..Len(InitialPayloads) : WellFormed(InitialPayloads[i].value)

\* Every relationship names, as source and as target, entities of its own
\* payload or of an earlier one, and no later payload brings a new node of
\* either name: the nodes its endpoints match are there when it is applied.
EndpointsAlreadyIngested ==
    \A i \in 1..Len(InitialPayloads) :
        LET entities(j) == Range(InitialPayloads[j].value.v.entities.v)
            known == UNION { entities(j) : j \in 1..i }
            later == UNION { entities(j) : j \in (i + 1)..Len(InitialPayloads) }
        IN  \A r \in Range(InitialPayloads[i].value.v.relationships.v) :
                /\ r.source \in {e.name : e \in known}
                /\ r.target \in {e.name : e \in known}
                /\ \A e \in later :
                       e.name \in {r.source, r.target}
                       => EntityKey(e) \in {EntityKey(k) : k \in known}

(***************************************************************************)
(* C27.  As claimed: the second pass over the payloads P1..Pn of the       *)
(* already-ingested documents leaves the graph the first pass gave: same   *)
(* nodes, same descriptions, same edges.                                   *)
(***************************************************************************)
C27_SecondPassChangesNothing ==
    InitialIngestedTwice => graph = AfterFirstPass

(***************************************************************************)
(* C27, amended.  The second pass over P1..Pn adds no node, changes no     *)
(* description and keeps every edge; it adds no edge when every node the   *)
(* endpoint names of a relationship match is created by the relationship's *)
(* own payload or by an earlier one.                                       *)
(***************************************************************************)
C27_SecondPassAddsNoNode ==
    InitialIngestedTwice
    => /\ graph.nodes = AfterFirstPass.nodes
       /\ Extends(graph, AfterFirstPass)
       /\ EndpointsAlreadyIngested => graph = AfterFirstPass

\* Two payloads were ingested twice, the first pass having left nodes and an
\* edge, and the second pass changed nothing.
C27_Witness ==
    /\ InitialIngestedTwice
    /\ Len(InitialPayloads) = 2
    /\ EndpointsAlreadyIngested
    /\ Len(AfterFirstPass.nodes) >= 2
    /\ Len(AfterFirstPass.edges) >= 1
    /\ graph = AfterFirstPass
    /\ \E i \in 1..Len(log) : log[i].ev = "updated" /\ log[i].pass = 2

\* The last call's payload is made of well-formed records, and each of its
\* relationships names, as source and as target, entities of the payload.
LastSelfContained ==
    /\ WellFormed(last)
    /\ \A r \in Range(LastRelationships) :
          {r.source, r.target} \subseteq {e.name : e \in Range(LastEntities)}

\* s is an initial part of t.
IsPrefix(s, t) == Len(s) <= Len(t) /\ \A i \in 1..Len(s) : s[i] = t[i]

(***************************************************************************)
(* C28.  Entities before relationships: a call whose payload is made of    *)
(* well-formed records, each relationship naming entities of the same      *)
(* payload, sends the query of every entity before that of any             *)
(* relationship, and after the call the graph holds, for every             *)
(* relationship, an edge of its sanitized type from a node named source to *)
(* a node named target.                                                    *)
(***************************************************************************)
C28_EntitiesBeforeRelationships ==
    (ncalls >= 1 /\ LastSelfContained)
    => /\ IsPrefix(result.labels,
                   [i \in 1..Len(LastEntities) |-> Sanitize(LastEntities[i].type)]
                   \o [i \in 1..Len(LastRelationships) |->
                          Sanitize(LastRelationships[i].type)])
       /\ \A r \in Range(LastRelationships) :
             \E k \in 1..Len(graph.edges) :
                 EdgeTriple(graph, k) = <<r.source, r.target, Sanitize(r.type)>>

\* The build command has ended on an early failure: no initial PDF (or none
\* that passed the trial), or an exception before the ontology is written.
FailedEarly ==
    /\ pc = "b_failed"
    /\ log # <<>>
    /\ \/ log[Len(log)].ev = "abort"
       \/ /\ log[Len(log)].ev = "error"
          /\ log[Len(log)].at \in {"b_list", "b_model", "b_discover", "b_load",
                                   "m_list", "m_model", "m_discover", "m_load"}

(***************************************************************************)
(* C29.  Build leaves state unchanged on early failure: the ontology file  *)
(* changes only in the step that writes the merged ontology; when build    *)
(* finds no initial PDF, or the listing, the discovery, or the loading and *)
(* merging of the existing ontology raises, that step was never taken, no  *)
(* knowledge graph was opened and no ingestion ran; the command has        *)
(* reported the error (the last thing it did) and takes no further step.   *)
(***************************************************************************)
C29_EarlyFailureLeavesState ==
    /\ [](FailedEarly
          => /\ kg = <<>>
             /\ \A i \in 1..Len(log) : log[i].ev \notin {"write", "open_kg", "ingest"})
    /\ [][/\ ontoFile' # ontoFile
             => /\ pc \in {"b_write", "m_write"}
                /\ log' = Append(log, Step("write"))
          /\ pc # "b_failed"]_vars

\* An existing ontology file was to be merged, its loading raised, and the
\* file is there with the content it had.
C29_Witness ==
    /\ FailedEarly
    /\ log[Len(log)].ev = "error"
    /\ log[Len(log)].at \in {"b_load", "m_load"}
    /\ ontoFile.exists
    /\ discovered # Null
    /\ kg = <<>>

\* The labels of o are unique within its entities and within its relations.
UniqueLabels(o) ==
    /\ \A i, j \in 1..Len(o.entities) : o.entities[i].label = o.entities[j].label => i = j
    /\ \A i, j \in 1..Len(o.relations) :
          o.relations[i].label = o.relations[j].label => i = j

\* What merge number k returned.
MergeResult(k) == IF k < Len(log) THEN log[k + 1].a ELSE ontology

(***************************************************************************)
(* C30.  Merge associativity: for ontologies a, b, c with unique labels,   *)
(* merging c into the merge of a and b gives what merging into a the merge *)
(* of b and c gives (same records, same order), and a call leaves both of  *)
(* its arguments as they were.                                             *)
(***************************************************************************)
C30_MergeAssociative ==
    /\ \A k \in 1..(Len(log) - 1) :
          LET a == log[k].a
              b == log[k].b
              c == log[k + 1].b
          IN  (UniqueLabels(a) /\ UniqueLabels(b) /\ UniqueLabels(c))
              => MergeResult(k + 1) = merge_ontologies(a, merge_ontologies(b, c))
    /\ Len(log) >= 1
       => /\ existing = log[Len(log)].a
          /\ discovered = log[Len(log)].b

\* Three ontologies with unique labels were folded, the second having an
\* entity label of the first with another record, the third a label of
\* neither and a relation label of both.
C30_Witness ==
    /\ Len(log) = 2
    /\ UniqueLabels(log[1].a) /\ UniqueLabels(log[1].b) /\ UniqueLabels(log[2].b)
    /\ \E i \in 1..Len(log[1].a.entities), j \in 1..Len(log[1].b.entities) :
          /\ log[1].a.entities[i].label = log[1].b.entities[j].label
          /\ log[1].a.entities[i] # log[1].b.entities[j]
    /\ Labels(log[2].b.entities) \ (Labels(log[1].a.entities) \cup Labels(log[1].b.entities)) # {}
    /\ Len(log[1].b.entities) = 2
    /\ Len(ontology.entities) = 3
    /\ Len(ontology.relations) = 2
====
